---- MODULE Spec2Model ----
\* A model of the token-splitting protocol, the extent rule and the tailed
\* combinators of the fuzzy-pickles parser (src/src/lib.rs).
EXTENDS Integers, Sequences, FiniteSets, TLC

VARIABLES tokens, pt, held, res, hist, items, pm

vars == <<tokens, pt, held, res, hist, items, pm>>

\* ---------------------------------------------------------------- bounds

MaxTokens == 3      \* tokens before the end-of-file token
MaxStart == 2       \* largest start byte of a token handed to split alone
MaxN == 2           \* largest in-token position handed to split
MaxGap == 1         \* bytes of whitespace between two tokens

\* ---------------------------------------------------------------- options

None == <<>>
Some(x) == <<x>>

\* ---------------------------------------------------------------- tokens

\* The Token variants the grammar rules below ask for.
Kinds ==
    {"RightAngle", "DoubleRightAngle", "ShiftRightEquals",
     "GreaterThanOrEquals", "Equals", "LeftAngle", "DoubleLeftAngle",
     "Pipe", "DoublePipe", "Ampersand", "DoubleAmpersand",
     "Ident", "Comma", "Colon", "At", "Ref", "Mut", "Number",
     "Minus", "LeftParen", "RightParen", "Semicolon", "LeftCurly", "RightCurly",
     "EndOfFile"}

\* Bytes of source text a token of each kind spans (identifiers and numbers
\* are one byte long here).
Width(kind) ==
    CASE kind \in {"DoubleRightAngle", "GreaterThanOrEquals", "DoubleLeftAngle",
                   "DoublePipe", "DoubleAmpersand"} -> 2
      [] kind \in {"ShiftRightEquals", "Ref", "Mut", "Mod"} -> 3
      [] kind = "EndOfFile" -> 0
      [] OTHER -> 1

Token(kind, extent) == [kind |-> kind, extent |-> extent]

\* The expectation code each token shim reports.
ErrorOf(kind) ==
    CASE kind = "RightAngle" -> "ExpectedRightAngle"
      [] kind = "DoubleRightAngle" -> "ExpectedDoubleRightAngle"
      [] kind = "ShiftRightEquals" -> "ExpectedShiftRightEquals"
      [] kind = "GreaterThanOrEquals" -> "ExpectedGreaterThanOrEquals"
      [] kind = "Equals" -> "ExpectedEquals"
      [] kind = "LeftAngle" -> "ExpectedLeftAngle"
      [] kind = "DoubleLeftAngle" -> "ExpectedDoubleLeftAngle"
      [] kind = "Pipe" -> "ExpectedPipe"
      [] kind = "DoublePipe" -> "ExpectedDoublePipe"
      [] kind = "Ampersand" -> "ExpectedAmpersand"
      [] kind = "DoubleAmpersand" -> "ExpectedDoubleAmpersand"
      [] kind = "Ident" -> "ExpectedIdent"
      [] kind = "Comma" -> "ExpectedComma"
      [] kind = "Colon" -> "ExpectedColon"
      [] kind = "At" -> "ExpectedAt"
      [] kind = "Ref" -> "ExpectedRef"
      [] kind = "Mut" -> "ExpectedMut"
      [] kind = "Number" -> "ExpectedNumber"
      [] kind = "Minus" -> "ExpectedMinus"
      [] kind = "Semicolon" -> "ExpectedSemicolon"
      [] kind = "LeftCurly" -> "ExpectedLeftCurly"
      [] kind = "RightCurly" -> "ExpectedRightCurly"
      [] kind = "LeftParen" -> "ExpectedLeftParen"
      [] kind = "RightParen" -> "ExpectedRightParen"
      [] kind = "Bang" -> "ExpectedBang"
      [] kind = "Hash" -> "ExpectedHash"
      [] kind = "LeftSquare" -> "ExpectedLeftSquare"
      [] kind = "RightSquare" -> "ExpectedRightSquare"
      [] kind = "Const" -> "ExpectedConst"
      [] kind = "Enum" -> "ExpectedEnum"
      [] kind = "Extern" -> "ExpectedExtern"
      [] kind = "Fn" -> "ExpectedFn"
      [] kind = "Impl" -> "ExpectedImpl"
      [] kind = "Mod" -> "ExpectedMod"
      [] kind = "Pub" -> "ExpectedPub"
      [] kind = "Static" -> "ExpectedStatic"
      [] kind = "Struct" -> "ExpectedStruct"
      [] kind = "Trait" -> "ExpectedTrait"
      [] kind = "Type" -> "ExpectedType"
      [] kind = "Unsafe" -> "ExpectedUnsafe"
      [] kind = "Use" -> "ExpectedUse"
      [] kind = "Default" -> "ExpectedDefault"
      [] kind = "SelfIdent" -> "ExpectedSelfIdent"
      [] kind = "Union" -> "ExpectedUnion"
      [] OTHER -> "Expected"

\* Token::into_<kind>: the extent of a token of that kind, nothing otherwise.
token_convert(kind, tok) ==
    IF tok.kind = kind THEN Some(tok.extent) ELSE None

\* ---------------------------------------------------------------- split

split_one_position(tok, n) ==
    LET s == tok.extent[1]
        e == tok.extent[2]
    IN  CASE tok.kind = "DoubleLeftAngle" /\ n = 0 ->
               Some(<<Token("LeftAngle", <<s, s + 1>>), Token("LeftAngle", <<s + 1, e>>)>>)
          [] tok.kind = "DoubleRightAngle" /\ n = 0 ->
               Some(<<Token("RightAngle", <<s, s + 1>>), Token("RightAngle", <<s + 1, e>>)>>)
          [] tok.kind = "ShiftRightEquals" /\ n = 0 ->
               Some(<<Token("RightAngle", <<s, s + 1>>), Token("GreaterThanOrEquals", <<s + 1, e>>)>>)
          [] tok.kind = "GreaterThanOrEquals" /\ n = 0 ->
               Some(<<Token("RightAngle", <<s, s + 1>>), Token("Equals", <<s + 1, e>>)>>)
          [] tok.kind = "DoublePipe" /\ n = 0 ->
               Some(<<Token("Pipe", <<s, s + 1>>), Token("Pipe", <<s + 1, e>>)>>)
          [] tok.kind = "DoubleAmpersand" /\ n = 0 ->
               Some(<<Token("Ampersand", <<s, s + 1>>), Token("Ampersand", <<s + 1, e>>)>>)
          [] OTHER -> None

split_overlapping(tok, n) ==
    LET s == tok.extent[1]
        e == tok.extent[2]
    IN  CASE tok.kind = "DoubleLeftAngle" /\ n = 0 ->
               Some(<<Token("LeftAngle", <<s, s + 1>>), Token("LeftAngle", <<s + 1, e>>)>>)
          [] tok.kind = "DoubleRightAngle" /\ n = 0 ->
               Some(<<Token("RightAngle", <<s, s + 1>>), Token("RightAngle", <<s + 1, e>>)>>)
          [] tok.kind = "ShiftRightEquals" /\ n = 0 ->
               Some(<<Token("RightAngle", <<s, s + 1>>), Token("GreaterThanOrEquals", <<s + 1, e>>)>>)
          [] tok.kind = "ShiftRightEquals" /\ n = 1 ->
               Some(<<Token("RightAngle", <<s + 1, s + 2>>), Token("Equals", <<s + 1, e>>)>>)
          [] tok.kind = "GreaterThanOrEquals" /\ n = 0 ->
               Some(<<Token("RightAngle", <<s, s + 1>>), Token("Equals", <<s + 1, e>>)>>)
          [] tok.kind = "DoublePipe" /\ n = 0 ->
               Some(<<Token("Pipe", <<s, s + 1>>), Token("Pipe", <<s + 1, e>>)>>)
          [] tok.kind = "DoubleAmpersand" /\ n = 0 ->
               Some(<<Token("Ampersand", <<s, s + 1>>), Token("Ampersand", <<s + 1, e>>)>>)
          [] OTHER -> None

split(tok, n) ==
    LET s == tok.extent[1]
        e == tok.extent[2]
    IN  CASE tok.kind = "DoubleLeftAngle" /\ n = 0 ->
               Some(<<Token("LeftAngle", <<s, s + 1>>), Token("LeftAngle", <<s + 1, e>>)>>)
          [] tok.kind = "DoubleRightAngle" /\ n = 0 ->
               Some(<<Token("RightAngle", <<s, s + 1>>), Token("RightAngle", <<s + 1, e>>)>>)
          [] tok.kind = "ShiftRightEquals" /\ n = 0 ->
               Some(<<Token("RightAngle", <<s, s + 1>>), Token("GreaterThanOrEquals", <<s + 1, e>>)>>)
          [] tok.kind = "ShiftRightEquals" /\ n = 1 ->
               Some(<<Token("RightAngle", <<s + 1, s + 2>>), Token("Equals", <<s + 2, e>>)>>)
          [] tok.kind = "GreaterThanOrEquals" /\ n = 0 ->
               Some(<<Token("RightAngle", <<s, s + 1>>), Token("Equals", <<s + 1, e>>)>>)
          [] tok.kind = "DoublePipe" /\ n = 0 ->
               Some(<<Token("Pipe", <<s, s + 1>>), Token("Pipe", <<s + 1, e>>)>>)
          [] tok.kind = "DoubleAmpersand" /\ n = 0 ->
               Some(<<Token("Ampersand", <<s, s + 1>>), Token("Ampersand", <<s + 1, e>>)>>)
          [] OTHER -> None

\* ---------------------------------------------------------------- points

TokenPoint(offset, sub_offset, s) ==
    [offset |-> offset, sub_offset |-> sub_offset, s |-> s]

TokenPoint_new(slice) == TokenPoint(0, None, slice)

advance_by_whole_slice(self, offset) ==
    TokenPoint(self.offset + offset, None, self.s)

advance_by_keeping(self, offset) ==
    TokenPoint(self.offset + offset, self.sub_offset,
               SubSeq(self.s, offset + 1, Len(self.s)))

advance_by(self, offset) ==
    TokenPoint(self.offset + offset, None,
               SubSeq(self.s, offset + 1, Len(self.s)))

location(self) == <<self.offset, self.sub_offset>>

\* The ordering with None above every Some.
cmp_sub_none_last(a, b) ==
    CASE a = None /\ b = None -> "Equal"
      [] a = None -> "Greater"
      [] b = None -> "Less"
      [] a[1] < b[1] -> "Less"
      [] a[1] > b[1] -> "Greater"
      [] OTHER -> "Equal"

\* Option<u8> ordering: None is below every Some.
cmp_sub(a, b) ==
    CASE a = None /\ b = None -> "Equal"
      [] a = None -> "Less"
      [] b = None -> "Greater"
      [] a[1] < b[1] -> "Less"
      [] a[1] > b[1] -> "Greater"
      [] OTHER -> "Equal"

cmp(self, other) ==
    CASE self.offset < other.offset -> "Less"
      [] self.offset > other.offset -> "Greater"
      [] OTHER -> cmp_sub(self.sub_offset, other.sub_offset)

\* ---------------------------------------------------------------- progress

\* A Progress, and with it what the parser that returned it has handed to
\* the parse master on the way: the failures the master consumed, in order.
Success(point, value) ==
    [status |-> "Success", point |-> point, value |-> value, error |-> "",
     consumed |-> <<>>]

Failure(point, error) ==
    [status |-> "Failure", point |-> point, value |-> None, error |-> error,
     consumed |-> <<>>]

Panic(point, message) ==
    [status |-> "Panic", point |-> point, value |-> None, error |-> message,
     consumed |-> <<>>]

\* ParseMaster::consume of a failure: the master is handed the failure and
\* the point it is at.
consume(r) ==
    Append(r.consumed, [point |-> r.point, error |-> r.error])

\* The progress r of a parser that ran after the master was handed `before`.
after(before, r) ==
    [r EXCEPT !.consumed = before \o @]

\* ---------------------------------------------------------------- the parse master

\* The failures the master holds: the furthest point a failure was handed in
\* at, and the failures handed in at that point.
Failures(point, kinds) == [point |-> point, kinds |-> kinds]

\* The point is Point::zero() until a failure is handed in.
Failures_new == Failures(TokenPoint_new(<<>>), <<>>)

Failures_add_never_replaces(self, point, failure) ==
    CASE cmp(point, self.point) = "Equal" -> Failures(self.point, Append(self.kinds, failure))
      [] OTHER -> self

Failures_add(self, point, failure) ==
    CASE cmp(point, self.point) = "Less" -> self
      [] cmp(point, self.point) = "Greater" -> Failures(point, <<failure>>)
      [] OTHER -> Failures(self.point, Append(self.kinds, failure))

RECURSIVE master(_, _)
\* The master after it was handed, one after the other, the failures a
\* parser had it consume (the first half of them, then the second half).
\* What the master holds is read before the failures are handed to it.
master(failures, consumed) ==
    CASE Len(failures.kinds) >= 0 /\ Len(consumed) = 0 -> failures
      [] Len(consumed) = 1 ->
           Failures_add(failures, consumed[1].point, consumed[1].error)
      [] OTHER ->
           master(master(failures, SubSeq(consumed, 1, Len(consumed) \div 2)),
                  SubSeq(consumed, Len(consumed) \div 2 + 1, Len(consumed)))

\* pm.finish on the progress r of a parser that ran with the master holding
\* `failures`: a failure is consumed, and what the master then holds is
\* taken out of it and returned.
finish(failures, r) ==
    IF r.status = "Failure"
    THEN [status |-> "Failure",
          point |-> master(failures, consume(r)).point,
          value |-> master(failures, consume(r)).kinds,
          failures |-> Failures_new]
    ELSE [status |-> r.status, point |-> r.point, value |-> r.value,
          failures |-> master(failures, r.consumed)]

\* ---------------------------------------------------------------- extents

\* The byte a point at or inside the first token of the slice stands for.
start_offset(relative_tokens, p) ==
    relative_tokens[1].extent[1]
      + (IF p.sub_offset = None THEN 0 ELSE p.sub_offset[1] + 1)

\* The byte a point past the first token of the slice stands for: the end
\* of the token before the point, moved by the point's sub_offset.
end_offset(relative_tokens, start, p) ==
    LET offset == p.offset - start.offset - 1
    IN  relative_tokens[offset + 1].extent[2]
          + (IF p.sub_offset = None THEN 0 ELSE p.sub_offset[1] + 1)

\* The extent that takes its two points to be at least a token apart.
ex_apart(start, end) ==
    LET relative_tokens == start.s
        extent(a, b) == [panic |-> FALSE, extent |-> <<a, b>>]
        panic == [panic |-> TRUE, extent |-> <<0, 0>>]
    IN  IF relative_tokens = <<>> THEN panic
        ELSE CASE start.offset < end.offset ->
                    IF end.offset - start.offset - 1 >= Len(relative_tokens) THEN panic
                    ELSE extent(start_offset(relative_tokens, start),
                                end_offset(relative_tokens, start, end))
               [] OTHER -> panic

\* State::ex: the extent between two points, or a panic (an index out of
\* the slice, or points that are backwards).
ex(start, end) ==
    LET relative_tokens == start.s
        extent(a, b) == [panic |-> FALSE, extent |-> <<a, b>>]
        panic == [panic |-> TRUE, extent |-> <<0, 0>>]
    IN  IF relative_tokens = <<>> THEN panic
        ELSE CASE start.offset < end.offset ->
                    IF end.offset - start.offset - 1 >= Len(relative_tokens) THEN panic
                    ELSE extent(start_offset(relative_tokens, start),
                                end_offset(relative_tokens, start, end))
               [] start.offset = end.offset ->
                    CASE cmp_sub(start.sub_offset, end.sub_offset) = "Less" ->
                           extent(start_offset(relative_tokens, start),
                                  start_offset(relative_tokens, end))
                      [] cmp_sub(start.sub_offset, end.sub_offset) = "Equal" ->
                           extent(start_offset(relative_tokens, start),
                                  start_offset(relative_tokens, start))
                      [] OTHER -> panic
               [] OTHER -> panic

\* ---------------------------------------------------------------- token

\* The token a request at point p tests: when resuming a split token, the
\* second half of the split at the point's sub_offset.
tested_token_whole(original_token, p) == original_token

tested_token(original_token, p) ==
    IF p.sub_offset # None
    THEN split(original_token, p.sub_offset[1])[1][2]
    ELSE original_token

\* The position at which to try a split when the whole token did not match.
next_sub_offset_restart(p) == 0

next_sub_offset(p) ==
    IF p.sub_offset # None THEN p.sub_offset[1] + 1 ELSE 0

token_skips(kind, error, p) ==
    IF p.s = <<>> THEN Failure(p, error)
    ELSE
    LET original_token == Head(p.s)
    IN  IF p.sub_offset # None /\ split(original_token, p.sub_offset[1]) = None
        THEN Panic(p, "Cannot resume a split token")
        ELSE
        LET whole == token_convert(kind, tested_token(original_token, p))
        IN  IF whole # None
            THEN Success(advance_by(p, 1), whole[1])
            ELSE
            LET sub_offset == next_sub_offset(p)
                halves == split(original_token, sub_offset)
            IN  IF halves = None THEN Failure(advance_by(p, 1), error)
                ELSE LET v == token_convert(kind, halves[1][1])
                     IN  IF v # None
                         THEN Success(TokenPoint(p.offset, Some(sub_offset), p.s), v[1])
                         ELSE Failure(advance_by(p, 1), error)

token(kind, error, p) ==
    IF p.s = <<>> THEN Failure(p, error)
    ELSE
    LET original_token == Head(p.s)
    IN  IF p.sub_offset # None /\ split(original_token, p.sub_offset[1]) = None
        THEN Panic(p, "Cannot resume a split token")
        ELSE
        LET whole == token_convert(kind, tested_token(original_token, p))
        IN  IF whole # None
            THEN \* We exactly matched the requested token
                 Success(advance_by(p, 1), whole[1])
            ELSE \* Maybe we can split the token
            LET sub_offset == next_sub_offset(p)
                halves == split(original_token, sub_offset)
            IN  IF halves = None THEN Failure(p, error)
                ELSE LET v == token_convert(kind, halves[1][1])
                     IN  IF v # None
                         THEN Success(TokenPoint(p.offset, Some(sub_offset), p.s), v[1])
                         ELSE Failure(p, error)

\* ---------------------------------------------------------------- combinators

\* peresil's optional, given the progress r of the parser run at point p.
optional(r, p) ==
    CASE r.status = "Success" -> after(r.consumed, Success(r.point, Some(r.value)))
      [] r.status = "Failure" -> after(consume(r), Success(p, None))
      [] OTHER -> r

\* The lookahead that goes on from where the parser stopped.
peek_forward(r, p) ==
    CASE r.status = "Success" -> after(r.consumed, Success(r.point, r.value))
      [] r.status = "Failure" -> after(r.consumed, Failure(p, r.error))
      [] OTHER -> r

\* not, given the progress r of the parser run at point p.
not(r, error, p) ==
    CASE r.status = "Success" -> after(r.consumed, Failure(p, error))
      [] r.status = "Failure" -> after(r.consumed, Success(p, <<>>))
      [] OTHER -> r

\* peek, given the progress r of the parser run at point p.
peek(r, p) ==
    CASE r.status = "Success" -> after(r.consumed, Success(p, r.value))
      [] r.status = "Failure" -> after(r.consumed, Failure(p, r.error))
      [] OTHER -> r

\* Two alternatives of pm.alternate(pt): the second runs when the first
\* fails, the master consumes the failure of the first, and the progress of
\* the second is the progress of the whole.
alternate(first, second) ==
    IF first.status # "Failure" THEN first ELSE after(consume(first), second)

\* sequence!: the point and the values of the steps so far.
sequence(p) == Success(p, <<>>)

\* One step of sequence!, r being the progress of the step's parser run at
\* the point of st: a failure ends the sequence with the parser's progress.
step(st, r) ==
    CASE st.status # "Success" -> st
      [] r.status # "Success" -> after(st.consumed, r)
      [] OTHER -> after(st.consumed \o r.consumed,
                        Success(r.point, Append(st.value, r.value)))

\* An AST node: its extent, its children, and the token indices [first, last)
\* the rule went over to build it.
Node(type, extent, children, first, last) ==
    [type |-> type, extent |-> extent, children |-> children,
     first |-> first, last |-> last]

\* The node a rule returns at `point`, x being the result of State::ex.
Built(type, x, children, entry, point) ==
    IF x.panic THEN Panic(point, "points are backwards")
    ELSE Success(point, Node(type, x.extent, children, entry.offset, point.offset))

\* ext, given the progress r of the parser run at point p.
ext(r, p) ==
    IF r.status # "Success" THEN r
    ELSE after(r.consumed, Built("Extent", ex(p, r.point), <<>>, p, r.point))

\* A token made a node of its own extent: `.map(|extent| Ident { extent })`.
leaf(type, r, p) ==
    IF r.status # "Success" THEN r
    ELSE after(r.consumed,
               Success(r.point, Node(type, r.value, <<>>, p.offset, r.point.offset)))

then_token(st, kind) ==
    IF st.status # "Success" THEN st
    ELSE step(st, token(kind, ErrorOf(kind), st.point))

then_peek_token(st, kind) ==
    IF st.status # "Success" THEN st
    ELSE step(st, peek(token(kind, ErrorOf(kind), st.point), st.point))

\* optional(minus): the extent is the one the token carries.
then_optional_token(st, kind) ==
    IF st.status # "Success" THEN st
    ELSE step(st, optional(leaf("Extent", token(kind, ErrorOf(kind), st.point), st.point), st.point))

then_optional_ext_token(st, kind) ==
    IF st.status # "Success" THEN st
    ELSE step(st, optional(ext(token(kind, ErrorOf(kind), st.point), st.point), st.point))

\* ---------------------------------------------------------------- patterns

\* `.map_err(|_| Error::ExpectedIdent)`
map_err(r, error) ==
    IF r.status = "Failure" THEN [r EXCEPT !.error = error] ELSE r

ident(p) ==
    leaf("Ident",
         map_err(alternate(token("Default", ErrorOf("Default"), p),
                 alternate(token("SelfIdent", ErrorOf("SelfIdent"), p),
                 alternate(token("Union", ErrorOf("Union"), p),
                           token("Ident", ErrorOf("Ident"), p)))),
                 "ExpectedIdent"),
         p)

then_ident(st) ==
    IF st.status # "Success" THEN st
    ELSE step(st, ident(st.point))

number_literal(p) ==
    leaf("Number", token("Number", ErrorOf("Number"), p), p)

then_number_literal(st) ==
    IF st.status # "Success" THEN st
    ELSE step(st, number_literal(st.point))

\* The closure of pattern_name that builds the node: it is not handed the
\* point the sequence ended at (`|pm, _|`), and the `pt` it names is the
\* point the rule was entered at.
PatternName(spt, pt_entry, st) ==
    IF st.status # "Success" THEN st
    ELSE after(st.consumed, Built("PatternName", ex(spt, pt_entry),
               st.value[1] \o st.value[2] \o <<st.value[3]>>, spt, st.point))

pattern_name(p) ==
    PatternName(p, p,
        then_token(
            then_ident(
                then_optional_ext_token(
                    then_optional_ext_token(sequence(p), "Ref"), "Mut")), "At"))

PatternNumber(spt, st) ==
    IF st.status # "Success" THEN st
    ELSE after(st.consumed, Built("PatternNumber", ex(spt, st.point),
               st.value[1] \o <<st.value[2]>>, spt, st.point))

pattern_number(p) ==
    PatternNumber(p, then_number_literal(then_optional_token(sequence(p), "Minus")))

\* pattern_tuple up to its first token; the vectors here hold no `(`.
pattern_tuple(p) ==
    token("LeftParen", ErrorOf("LeftParen"), p)

then_optional_pattern_tuple(st) ==
    IF st.status # "Success" THEN st
    ELSE step(st, optional(pattern_tuple(st.point), st.point))

PatternIdent(spt, st) ==
    IF st.status # "Success" THEN st
    ELSE after(st.consumed, Built("PatternIdent", ex(spt, st.point),
               st.value[1] \o st.value[2] \o <<st.value[3]>>, spt, st.point))

\* pattern_ident, the path being a single identifier.
pattern_ident(p) ==
    PatternIdent(p,
        then_optional_pattern_tuple(
            then_ident(
                then_optional_ext_token(
                    then_optional_ext_token(sequence(p), "Ref"), "Mut"))))

\* pattern_kind: the alternatives that can match a vector of `ref`, `mut`,
\* `@`, `-`, identifiers and numbers.
pattern_kind(p) ==
    alternate(pattern_number(p), pattern_ident(p))

then_optional_pattern_name(st) ==
    IF st.status # "Success" THEN st
    ELSE step(st, optional(pattern_name(st.point), st.point))

then_pattern_kind(st) ==
    IF st.status # "Success" THEN st
    ELSE step(st, pattern_kind(st.point))

Pattern(spt, st) ==
    IF st.status # "Success" THEN st
    ELSE after(st.consumed, Built("Pattern", ex(spt, st.point),
               st.value[1] \o <<st.value[2]>>, spt, st.point))

pattern(p) ==
    Pattern(p, then_pattern_kind(then_optional_pattern_name(sequence(p))))

\* ---------------------------------------------------------------- items

RECURSIVE apply(_, _)
RECURSIVE zero_or_more_append(_, _, _)
RECURSIVE parse_nested_until_loop(_, _, _, _, _)

\* One turn of the loop of pm.zero_or_more, r being the progress of the
\* parser run at point p: the master consumes the failure that ends the loop.
zero_or_more_next(values, f, r, p) ==
    CASE r.status = "Success" ->
           after(r.consumed, zero_or_more_append(Append(values, r.value), f, r.point))
      [] r.status = "Failure" -> after(consume(r), Success(p, values))
      [] OTHER -> r

zero_or_more_append(values, f, p) ==
    zero_or_more_next(values, f, apply(f, p), p)

zero_or_more(f, p) ==
    zero_or_more_append(<<>>, f, p)

then_zero_or_more(st, f) ==
    IF st.status # "Success" THEN st
    ELSE step(st, zero_or_more(f, st.point))

then_apply(st, f) ==
    IF st.status # "Success" THEN st
    ELSE step(st, apply(f, st.point))

\* The loop without its test for the end of the file.
parse_nested_until_loop_past_end(s, is_open, is_close, skipped, depth) ==
    IF skipped = Len(s) THEN skipped
    ELSE CASE s[skipped + 1].kind = is_open ->
                parse_nested_until_loop(s, is_open, is_close, skipped + 1, depth + 1)
           [] s[skipped + 1].kind = is_close ->
                IF depth = 0 THEN skipped
                ELSE parse_nested_until_loop(s, is_open, is_close, skipped + 1, depth - 1)
           [] OTHER ->
                parse_nested_until_loop(s, is_open, is_close, skipped + 1, depth)

\* The loop of parse_nested_until over the tokens of the slice: how many
\* it skips.
parse_nested_until_loop(s, is_open, is_close, skipped, depth) ==
    IF skipped = Len(s) THEN skipped
    ELSE CASE s[skipped + 1].kind = "EndOfFile" -> skipped
           [] s[skipped + 1].kind = is_open ->
                parse_nested_until_loop(s, is_open, is_close, skipped + 1, depth + 1)
           [] s[skipped + 1].kind = is_close ->
                IF depth = 0 THEN skipped
                ELSE parse_nested_until_loop(s, is_open, is_close, skipped + 1, depth - 1)
           [] OTHER ->
                parse_nested_until_loop(s, is_open, is_close, skipped + 1, depth)

\* `Progress::success(pt, pm.state.ex(spt, pt))`
skipped_extent(x, p) ==
    IF x.panic THEN Panic(p, "points are backwards") ELSE Success(p, x.extent)

\* The scan that takes no account of the open tokens.
parse_nested_until_first_close(is_open, is_close, spt) ==
    skipped_extent(
        ex(spt, advance_by(spt, parse_nested_until_loop(spt.s, "", is_close, 0, 0))),
        advance_by(spt, parse_nested_until_loop(spt.s, "", is_close, 0, 0)))

parse_nested_until(is_open, is_close, spt) ==
    skipped_extent(
        ex(spt, advance_by(spt, parse_nested_until_loop(spt.s, is_open, is_close, 0, 0))),
        advance_by(spt, parse_nested_until_loop(spt.s, is_open, is_close, 0, 0)))

then_parse_nested_until(st, is_open, is_close) ==
    IF st.status # "Success" THEN st
    ELSE step(st, parse_nested_until(is_open, is_close, st.point))

Attribute(spt, st) ==
    IF st.status # "Success" THEN st
    ELSE after(st.consumed, Built("Attribute", ex(spt, st.point), <<>>, spt, st.point))

attribute(p) ==
    Attribute(p,
        then_token(
            then_parse_nested_until(
                then_token(then_token(sequence(p), "Hash"), "LeftSquare"),
                "LeftSquare", "RightSquare"),
            "RightSquare"))

AttributeContaining(spt, st) ==
    IF st.status # "Success" THEN st
    ELSE after(st.consumed,
               Built("AttributeContaining", ex(spt, st.point), <<>>, spt, st.point))

attribute_containing(p) ==
    AttributeContaining(p,
        then_token(
            then_parse_nested_until(
                then_token(then_token(then_token(sequence(p), "Hash"), "Bang"),
                           "LeftSquare"),
                "LeftSquare", "RightSquare"),
            "RightSquare"))

Attributed(spt, st) ==
    IF st.status # "Success" THEN st
    ELSE after(st.consumed,
               Built("Attributed", ex(spt, st.point),
                     st.value[1] \o <<st.value[2]>>, spt, st.point))

attributed(f, p) ==
    Attributed(p, then_apply(then_zero_or_more(sequence(p), "attribute"), f))

\* visibility up to its keyword; the vectors here hold no `pub`.
visibility(p) ==
    token("Pub", ErrorOf("Pub"), p)

then_optional_visibility(st) ==
    IF st.status # "Success" THEN st
    ELSE step(st, optional(visibility(st.point), st.point))

\* The items that start with a keyword no vector here holds, each up to
\* that keyword.
p_const(p) ==
    then_token(then_optional_visibility(sequence(p)), "Const")

extern_crate(p) ==
    then_token(then_optional_visibility(sequence(p)), "Extern")

extern_block(p) ==
    then_token(sequence(p), "Extern")

function_qualifier_extern(p) ==
    ext(token("Extern", ErrorOf("Extern"), p), p)

then_optional_function_qualifier_extern(st) ==
    IF st.status # "Success" THEN st
    ELSE step(st, optional(function_qualifier_extern(st.point), st.point))

FunctionQualifiers(spt, st) ==
    IF st.status # "Success" THEN st
    ELSE after(st.consumed,
               Built("FunctionQualifiers", ex(spt, st.point), <<>>, spt, st.point))

function_qualifiers(p) ==
    FunctionQualifiers(p,
        then_optional_function_qualifier_extern(
            then_optional_ext_token(
                then_optional_ext_token(
                    then_optional_ext_token(sequence(p), "Default"), "Const"), "Unsafe")))

then_function_qualifiers(st) ==
    IF st.status # "Success" THEN st
    ELSE step(st, function_qualifiers(st.point))

function_header(p) ==
    then_token(then_function_qualifiers(then_optional_visibility(sequence(p))), "Fn")

function(p) == function_header(p)

p_enum(p) ==
    then_token(then_optional_visibility(sequence(p)), "Enum")

p_impl(p) ==
    then_token(then_optional_ext_token(sequence(p), "Unsafe"), "Impl")

p_static(p) ==
    then_token(then_optional_visibility(sequence(p)), "Static")

p_struct(p) ==
    then_token(then_optional_visibility(sequence(p)), "Struct")

p_trait(p) ==
    then_token(then_optional_token(then_optional_visibility(sequence(p)), "Unsafe"), "Trait")

p_union(p) ==
    then_token(then_optional_visibility(sequence(p)), "Union")

p_use(p) ==
    then_token(then_optional_visibility(sequence(p)), "Use")

type_alias(p) ==
    then_token(then_optional_visibility(sequence(p)), "Type")

\* `|_, _| args`: the extent of what is between the brackets.
MacroCallArgs(st) ==
    IF st.status # "Success" THEN st
    ELSE after(st.consumed, Success(st.point, st.value[2]))

item_macro_call_paren(p) ==
    MacroCallArgs(
        then_token(
            then_token(
                then_parse_nested_until(then_token(sequence(p), "LeftParen"),
                                        "LeftParen", "RightParen"),
                "RightParen"),
            "Semicolon"))

item_macro_call_square(p) ==
    MacroCallArgs(
        then_token(
            then_token(
                then_parse_nested_until(then_token(sequence(p), "LeftSquare"),
                                        "LeftSquare", "RightSquare"),
                "RightSquare"),
            "Semicolon"))

item_macro_call_curly(p) ==
    MacroCallArgs(
        then_token(
            then_parse_nested_until(then_token(sequence(p), "LeftCurly"),
                                    "LeftCurly", "RightCurly"),
            "RightCurly"))

item_macro_call_args(p) ==
    alternate(item_macro_call_paren(p),
    alternate(item_macro_call_square(p),
              item_macro_call_curly(p)))

then_item_macro_call_args(st) ==
    IF st.status # "Success" THEN st
    ELSE step(st, item_macro_call_args(st.point))

then_optional_ident(st) ==
    IF st.status # "Success" THEN st
    ELSE step(st, optional(ident(st.point), st.point))

MacroCall(spt, st) ==
    IF st.status # "Success" THEN st
    ELSE after(st.consumed,
               Built("MacroCall", ex(spt, st.point),
                     <<st.value[1]>> \o st.value[3], spt, st.point))

item_macro_call(p) ==
    MacroCall(p,
        then_item_macro_call_args(
            then_optional_ident(then_token(then_ident(sequence(p)), "Bang"))))

\* `|_, _| body`, under `map(module_body, Some)`
ModuleBody(st) ==
    IF st.status # "Success" THEN st
    ELSE after(st.consumed, Success(st.point, Some(st.value[2])))

module_body(p) ==
    ModuleBody(
        then_token(
            then_zero_or_more(then_token(sequence(p), "LeftCurly"), "attributed_item"),
            "RightCurly"))

\* `map(semicolon, |_| None)`
NoModuleBody(r) ==
    IF r.status # "Success" THEN r
    ELSE after(r.consumed, Success(r.point, None))

module_body_or_not(p) ==
    alternate(module_body(p), NoModuleBody(token("Semicolon", ErrorOf("Semicolon"), p)))

then_module_body_or_not(st) ==
    IF st.status # "Success" THEN st
    ELSE step(st, module_body_or_not(st.point))

Module(spt, st) ==
    IF st.status # "Success" THEN st
    ELSE after(st.consumed,
               Built("Module", ex(spt, st.point),
                     <<st.value[3]>> \o (IF st.value[4] = None THEN <<>> ELSE st.value[4][1]),
                     spt, st.point))

module(p) ==
    Module(p,
        then_module_body_or_not(
            then_ident(then_token(then_optional_visibility(sequence(p)), "Mod"))))

\* An item that may be missing: succeeds where it stands when no module is
\* there.
item_or_nothing(p) ==
    optional(module(p), p)

item(p) ==
    alternate(attribute_containing(p),
    alternate(p_const(p),
    alternate(extern_crate(p),
    alternate(extern_block(p),
    alternate(function(p),
    alternate(item_macro_call(p),
    alternate(module(p),
    alternate(p_enum(p),
    alternate(p_impl(p),
    alternate(p_static(p),
    alternate(p_struct(p),
    alternate(p_trait(p),
    alternate(p_union(p),
    alternate(p_use(p),
              type_alias(p)))))))))))))))

\* ---------------------------------------------------------------- values of lists

\* typ, for a type that is a single identifier.
typ(p) == ident(p)

then_pattern(st) ==
    IF st.status # "Success" THEN st
    ELSE step(st, pattern(st.point))

then_typ(st) ==
    IF st.status # "Success" THEN st
    ELSE step(st, typ(st.point))

Argument(p, st) ==
    IF st.status # "Success" THEN st
    ELSE after(st.consumed, Success(st.point,
                 Node("Argument", <<st.value[1].extent[1], st.value[3].extent[2]>>,
                      <<st.value[1], st.value[3]>>, p.offset, st.point.offset)))

function_argument(p) ==
    Argument(p, then_typ(then_token(then_pattern(sequence(p)), "Colon")))

Empty(spt, st) ==
    IF st.status # "Success" THEN st
    ELSE after(st.consumed, Built("Empty", ex(spt, st.point), <<>>, spt, st.point))

statement_empty(p) ==
    Empty(p, then_peek_token(sequence(p), "Semicolon"))

RECURSIVE block(_)

\* Statement::is_expression, on the value of a statement.
is_expression(v) == v.type \notin {"Empty", "Attributed"}

\* `!term && stmts.last().map_or(false, Statement::is_expression)`
promoted(stmts, term) ==
    IF term \/ stmts = <<>> THEN FALSE ELSE is_expression(stmts[Len(stmts)])

\* The Block of the statements, x being the result of State::ex: the last
\* statement is popped into `expression` when it is promoted.
Block_new(x, stmts, term, entry, point) ==
    IF x.panic THEN Panic(point, "points are backwards")
    ELSE Success(point,
           [type |-> "Block", extent |-> x.extent, children |-> stmts,
            first |-> entry.offset, last |-> point.offset,
            statements |-> IF promoted(stmts, term)
                           THEN SubSeq(stmts, 1, Len(stmts) - 1) ELSE stmts,
            expression |-> IF promoted(stmts, term)
                           THEN Some(stmts[Len(stmts)]) ELSE None])

Block(spt, st) ==
    IF st.status # "Success" THEN st
    ELSE after(st.consumed,
               Block_new(ex(spt, st.point), st.value[2][1], st.value[2][2],
                         spt, st.point))

\* A macro call with its arguments in braces, as an expression.
ExprMacroCall(spt, st) ==
    IF st.status # "Success" THEN st
    ELSE after(st.consumed,
               Built("MacroCall", ex(spt, st.point), <<st.value[1]>>, spt, st.point))

then_item_macro_call_curly(st) ==
    IF st.status # "Success" THEN st
    ELSE step(st, item_macro_call_curly(st.point))

expr_macro_call(p) ==
    ExprMacroCall(p,
        then_item_macro_call_curly(then_token(then_ident(sequence(p)), "Bang")))

\* statement_expression, for three expressions: the macro call `name!{..}`,
\* the value `name` and the block.
statement_expression(p) ==
    alternate(expr_macro_call(p),
    alternate(leaf("Value", token("Ident", ErrorOf("Ident"), p), p),
              block(p)))

statement(p) ==
    alternate(statement_expression(p),
    alternate(attributed("item", p),
              statement_empty(p)))

\* No expression may terminate a statement.
may_terminate_statement_never(e) == FALSE

\* Expression::may_terminate_statement, for the expressions above: the
\* macro calls among them have their arguments in braces.
may_terminate_statement(e) == e.type \in {"Block", "MacroCall"}

\* Every statement separates itself from the next.
is_implicit_separator_always(v) == TRUE

\* Statement::is_implicit_separator
is_implicit_separator(v) ==
    CASE v.type = "Empty" -> FALSE
      [] v.type = "Attributed" -> TRUE
      [] OTHER -> may_terminate_statement(v)

\* The parser a combinator is handed, by name.
apply(f, p) ==
    CASE f = "function_argument" -> function_argument(p)
      [] f = "ident" -> ident(p)
      [] f = "statement" -> statement(p)
      [] f = "comma" -> token("Comma", ErrorOf("Comma"), p)
      [] f = "semicolon" -> token("Semicolon", ErrorOf("Semicolon"), p)
      [] f = "attribute" -> attribute(p)
      [] f = "item" -> item(p)
      [] f = "attributed_item" -> attributed("item", p)
      [] OTHER -> Failure(p, "Expected")

\* ---------------------------------------------------------------- tailed combinators

TailedState(state, point, value) ==
    [state |-> state, point |-> point, value |-> value, consumed |-> <<>>]

\* The inner match of parse_tailed, s being the progress of the separator.
after_separator(v, s) ==
    IF s.status # "Success"
    THEN after(v.consumed \o s.consumed, TailedState("ValueOnly", s.point, v.value))
    ELSE after(v.consumed \o s.consumed,
               TailedState("ValueAndSeparator", s.point, v.value))

\* The outer match of parse_tailed, v being the progress of the value.
after_value(sep, v) ==
    IF v.status # "Success"
    THEN after(v.consumed, TailedState("Nothing", v.point, v.error))
    ELSE after_separator(v, apply(sep, v.point))

parse_tailed(sep, f, p) ==
    after_value(sep, apply(f, p))

Tailed(values, separator_count, last_had_separator) ==
    [values |-> values, separator_count |-> separator_count,
     last_had_separator |-> last_had_separator]

Tailed_default == Tailed(<<>>, 0, FALSE)

RECURSIVE zero_or_more_tailed_append(_, _, _, _)
RECURSIVE zero_or_more_tailed_match(_, _, _, _)

\* The match that does not count the separators.
zero_or_more_tailed_match_uncounted(tailed, sep, f, st) ==
    CASE st.state = "Nothing" -> after(st.consumed, Success(st.point, tailed))
      [] st.state = "ValueOnly" ->
           after(st.consumed,
                 Success(st.point, Tailed(Append(tailed.values, st.value),
                                          tailed.separator_count, FALSE)))
      [] OTHER ->
           after(st.consumed,
                 zero_or_more_tailed_append(
                     Tailed(Append(tailed.values, st.value),
                            tailed.separator_count, TRUE),
                     sep, f, st.point))

\* The match of the loop of zero_or_more_tailed_append on one parse_tailed.
zero_or_more_tailed_match(tailed, sep, f, st) ==
    CASE st.state = "Nothing" -> after(st.consumed, Success(st.point, tailed))
      [] st.state = "ValueOnly" ->
           after(st.consumed,
                 Success(st.point, Tailed(Append(tailed.values, st.value),
                                          tailed.separator_count, FALSE)))
      [] OTHER ->
           after(st.consumed,
                 zero_or_more_tailed_append(
                     Tailed(Append(tailed.values, st.value),
                            tailed.separator_count + 1, TRUE),
                     sep, f, st.point))

zero_or_more_tailed_append(append_to, sep, f, p) ==
    zero_or_more_tailed_match(append_to, sep, f, parse_tailed(sep, f, p))

zero_or_more_tailed(sep, f, p) ==
    zero_or_more_tailed_append(Tailed_default, sep, f, p)

RECURSIVE zero_or_more_implicitly_tailed_append(_, _, _, _)
RECURSIVE zero_or_more_implicitly_tailed_match(_, _, _, _)

\* The match of the loop of zero_or_more_implicitly_tailed_append.
zero_or_more_implicitly_tailed_match(tailed, sep, f, st) ==
    CASE st.state = "Nothing" -> after(st.consumed, Success(st.point, tailed))
      [] st.state = "ValueOnly" ->
           IF is_implicit_separator(st.value)
           THEN after(st.consumed,
                      zero_or_more_implicitly_tailed_append(
                          Tailed(Append(tailed.values, st.value),
                                 tailed.separator_count + 1, FALSE),
                          sep, f, st.point))
           ELSE after(st.consumed,
                      Success(st.point, Tailed(Append(tailed.values, st.value),
                                               tailed.separator_count,
                                               tailed.last_had_separator)))
      [] OTHER ->
           after(st.consumed,
                 zero_or_more_implicitly_tailed_append(
                     Tailed(Append(tailed.values, st.value),
                            tailed.separator_count + 1, TRUE),
                     sep, f, st.point))

zero_or_more_implicitly_tailed_append(append_to, sep, f, p) ==
    zero_or_more_implicitly_tailed_match(append_to, sep, f, parse_tailed(sep, f, p))

\* One turn of the loop of zero_or_more_implicitly_tailed_append on its
\* parse_tailed: the loop goes on from the point with the values so far, or
\* returns them at the point.
Turned(continue, point, tailed) ==
    [continue |-> continue, point |-> point, tailed |-> tailed]

zero_or_more_implicitly_tailed_turn(tailed, st) ==
    CASE st.state = "Nothing" -> Turned(FALSE, st.point, tailed)
      [] st.state = "ValueOnly" ->
           IF is_implicit_separator(st.value)
           THEN Turned(TRUE, st.point,
                       Tailed(Append(tailed.values, st.value),
                              tailed.separator_count + 1, FALSE))
           ELSE Turned(FALSE, st.point,
                       Tailed(Append(tailed.values, st.value),
                              tailed.separator_count, tailed.last_had_separator))
      [] OTHER ->
           Turned(TRUE, st.point,
                  Tailed(Append(tailed.values, st.value),
                         tailed.separator_count + 1, TRUE))

\* The match that takes no value for a list, as zero_or_more_tailed does.
one_or_more_tailed_match_or_none(sep, f, st) ==
    CASE st.state = "Nothing" -> after(st.consumed, Success(st.point, Tailed_default))
      [] st.state = "ValueOnly" ->
           after(st.consumed, Success(st.point, Tailed(<<st.value>>, 0, FALSE)))
      [] OTHER ->
           after(st.consumed,
                 zero_or_more_tailed_append(Tailed(<<st.value>>, 1, FALSE),
                                            sep, f, st.point))

\* The match of one_or_more_tailed on its parse_tailed.
one_or_more_tailed_match(sep, f, st) ==
    CASE st.state = "Nothing" -> after(st.consumed, Failure(st.point, st.value))
      [] st.state = "ValueOnly" ->
           after(st.consumed, Success(st.point, Tailed(<<st.value>>, 0, FALSE)))
      [] OTHER ->
           after(st.consumed,
                 zero_or_more_tailed_append(Tailed(<<st.value>>, 1, FALSE),
                                            sep, f, st.point))

one_or_more_tailed(sep, f, p) ==
    one_or_more_tailed_match(sep, f, parse_tailed(sep, f, p))

\* `map(one_or_more_tailed(sep, f), |t| t.values)`
map_values(r) ==
    IF r.status # "Success" THEN r ELSE [r EXCEPT !.value = @.values]

\* The list is parsed once and its progress mapped.
one_or_more_tailed_values(sep, f, p) ==
    CHOOSE m \in {map_values(r) : r \in {one_or_more_tailed(sep, f, p)}} : TRUE

\* The match that goes on behind the separator when no value follows it.
zero_or_more_tailed_values_resume_match_forward(spt, s, r) ==
    CASE r.status = "Failure" -> after(s.consumed \o r.consumed, Success(s.point, <<>>))
      [] OTHER -> after(s.consumed, r)

\* The second match of zero_or_more_tailed_values_resume, s being the
\* progress of the separator and r that of the values behind it: the failure
\* is dropped and the point is the one before the separator.
zero_or_more_tailed_values_resume_match(spt, s, r) ==
    CASE r.status = "Failure" -> after(s.consumed \o r.consumed, Success(spt, <<>>))
      [] OTHER -> after(s.consumed, r)

\* The first match of zero_or_more_tailed_values_resume, s being the progress
\* of the separator: its failure is dropped and its point returned.
zero_or_more_tailed_values_resume_separator(sep, f, spt, s) ==
    CASE s.status = "Failure" -> after(s.consumed, Success(s.point, <<>>))
      [] s.status = "Success" ->
           CHOOSE m \in {zero_or_more_tailed_values_resume_match(spt, s, r) :
                            r \in {one_or_more_tailed_values(sep, f, s.point)}} : TRUE
      [] OTHER -> s

zero_or_more_tailed_values_resume(sep, f, p) ==
    zero_or_more_tailed_values_resume_separator(sep, f, p, apply(sep, p))

\* `|t| (t.values, t.last_had_separator)`
Terminated(r) ==
    IF r.status # "Success" THEN r
    ELSE [r EXCEPT !.value = <<r.value.values, r.value.last_had_separator>>]

zero_or_more_implicitly_tailed_values_terminated(sep, f, p) ==
    Terminated(zero_or_more_implicitly_tailed_append(Tailed_default, sep, f, p))

then_statements(st) ==
    IF st.status # "Success" THEN st
    ELSE step(st, zero_or_more_implicitly_tailed_values_terminated(
                      "semicolon", "statement", st.point))

block(p) ==
    Block(p, then_token(then_statements(then_token(sequence(p), "LeftCurly")),
                        "RightCurly"))

\* ---------------------------------------------------------------- inputs

\* The tokenizer is greedy: two tokens with no byte between them are never a
\* pair it would have lexed as one longer token (or as a different pair).
Munches(a, b) ==
    \/ a = "RightAngle" /\ b \in {"RightAngle", "DoubleRightAngle", "ShiftRightEquals",
                                  "GreaterThanOrEquals", "Equals"}
    \/ a = "DoubleRightAngle" /\ b \in {"Equals"}
    \/ a = "LeftAngle" /\ b \in {"LeftAngle", "DoubleLeftAngle", "Equals"}
    \/ a = "DoubleLeftAngle" /\ b \in {"Equals"}
    \/ a = "Equals" /\ b \in {"Equals", "RightAngle", "DoubleRightAngle",
                              "ShiftRightEquals", "GreaterThanOrEquals"}
    \/ a = "Pipe" /\ b \in {"Pipe", "DoublePipe", "Equals"}
    \/ a = "Ampersand" /\ b \in {"Ampersand", "DoubleAmpersand", "Equals"}
    \/ a = "Colon" /\ b = "Colon"
    \/ a \in {"Ident", "Ref", "Mut", "Number", "Mod"}
         /\ b \in {"Ident", "Ref", "Mut", "Number", "Mod"}

RECURSIVE Layout(_, _, _)
\* The tokens of the given kinds laid out from byte `at`, gaps[i] bytes of
\* whitespace before the i-th token.
Layout(kinds, gaps, at) ==
    IF kinds = <<>> THEN <<>>
    ELSE LET s == at + Head(gaps)
             e == s + Width(Head(kinds))
         IN  <<Token(Head(kinds), <<s, e>>)>> \o Layout(Tail(kinds), Tail(gaps), e)

Greedy(kinds, gaps) ==
    \A i \in 1..(Len(kinds) - 1) : gaps[i + 1] = 0 => ~Munches(kinds[i], kinds[i + 1])

\* Every greedy choice of whitespace between the tokens of the given kinds.
AnyGaps(ks) ==
    { gs \in [1..Len(ks) -> 0..MaxGap] : Greedy(ks, gs) }

\* The layout with no whitespace except where two tokens would otherwise have
\* been lexed together.
TightGaps(ks) ==
    { [i \in 1..Len(ks) |-> IF i > 1 /\ Munches(ks[i - 1], ks[i]) THEN 1 ELSE 0] }

\* The token vectors the parser runs on: whitespace already partitioned out,
\* the end-of-file token last.
Streams(K, n, tight) ==
    UNION { { Layout(ks \o <<"EndOfFile">>, gs, 0) :
                gs \in IF tight THEN TightGaps(ks \o <<"EndOfFile">>)
                                ELSE AnyGaps(ks \o <<"EndOfFile">>) } :
              ks \in UNION { [1..m -> K] : m \in 0..n } }

\* The vector of tokens of the given kinds, laid out like Streams lays its
\* vectors out tight.
Stream(ks) ==
    Layout(ks \o <<"EndOfFile">>,
           [i \in 1..(Len(ks) + 1) |->
              IF i > 1 /\ i <= Len(ks) /\ Munches(ks[i - 1], ks[i]) THEN 1 ELSE 0], 0)

\* ---------------------------------------------------------------- the token protocol

StreamKinds ==
    {"RightAngle", "DoubleRightAngle", "ShiftRightEquals", "GreaterThanOrEquals",
     "Equals", "Ident", "DoublePipe"}

RequestKinds ==
    {"RightAngle", "DoubleRightAngle", "ShiftRightEquals", "GreaterThanOrEquals",
     "Equals", "Ident", "Pipe"}

Tagged(r, op, req, in) ==
    [op |-> op, req |-> req, in |-> in, status |-> r.status,
     point |-> r.point, value |-> r.value, error |-> r.error,
     consumed |-> r.consumed]

NoResult(p) ==
    [op |-> "none", req |-> "", in |-> p, status |-> "None",
     point |-> p, value |-> None, error |-> "", consumed |-> <<>>]

\* The empty slice is the slice of Point::zero().
Init ==
    /\ tokens \in Streams(StreamKinds, MaxTokens, TRUE) \cup {<<>>}
    /\ pt = TokenPoint_new(tokens)
    /\ held = pt
    /\ res = NoResult(pt)
    /\ hist = <<>>
    /\ items = <<>>
    /\ pm = Failures_new

\* A grammar rule asks for a token of one kind at the current point; on
\* success the point moves on, on failure the caller keeps its own point.
Request(kind) ==
    /\ res.status # "Panic"
    /\ LET r == token(kind, ErrorOf(kind), pt)
       IN  /\ res' = Tagged(r, "token", kind, pt)
           /\ pt' = IF r.status = "Success" THEN r.point ELSE pt
           /\ hist' = IF r.status = "Success"
                      THEN Append(hist, [kind |-> kind, from |-> location(pt),
                                         to |-> location(r.point)])
                      ELSE hist
    /\ UNCHANGED <<tokens, held, items, pm>>

Next ==
    \E kind \in RequestKinds : Request(kind)

Spec == Init /\ [][Next]_vars

\* ---------------------------------------------------------------- claims on the token protocol

IsPrefix(a, b) ==
    /\ Len(a) <= Len(b)
    /\ \A i \in 1..Len(a) : a[i] = b[i]

RECURSIVE Doubles(_)
\* The number of leading `>>` tokens that follow each other without a gap.
Doubles(ts) ==
    IF ts = <<>> \/ Head(ts).kind # "DoubleRightAngle" THEN 0
    ELSE IF Len(ts) > 1 /\ ts[2].extent[1] = ts[1].extent[2]
         THEN 1 + Doubles(Tail(ts))
         ELSE 1

\* <<a, b>>: the vector starts with the greedy tokens of 2a + b closers `>`.
Closers(ts) ==
    LET a == Doubles(ts)
        b == IF /\ a < Len(ts)
                /\ ts[a + 1].kind = "RightAngle"
                /\ (a = 0 \/ ts[a].extent[2] = ts[a + 1].extent[1])
             THEN 1 ELSE 0
    IN  <<a, b>>

OnlyRightAngles(h) == \A i \in 1..Len(h) : h[i].kind = "RightAngle"

Splits(h) == Cardinality({ i \in 1..Len(h) : h[i].to[2] # None })

Rest(k) == SubSeq(tokens, k + 1, Len(tokens))

\* C1: when the vector starts with the greedy tokens of n >= 1 closers `>`,
\* n successive right_angle requests all succeed, use one split per `>>`
\* token and end on the whole-token boundary just after the closers.
C1_ClosersAllMatch ==
    LET a == Closers(tokens)[1]
        b == Closers(tokens)[2]
        n == 2 * a + b
    IN  (n >= 1 /\ OnlyRightAngles(hist)) =>
          /\ (res.op = "token" /\ res.req = "RightAngle" /\ Len(hist) < n)
                => res.status = "Success"
          /\ Len(hist) = n =>
                /\ pt = TokenPoint(a + b, None, Rest(a + b))
                /\ Splits(hist) = a

C1_Witness ==
    /\ Closers(tokens) = <<2, 1>>
    /\ OnlyRightAngles(hist)
    /\ Len(hist) = 5
    /\ Splits(hist) = 2

\* The kinds matched so far inside the token at index i.
InToken(i) ==
    LET at == SelectSeq(hist, LAMBDA h : h.from[1] = i)
    IN  [j \in 1..Len(at) |-> at[j].kind]

Remainders(kind) ==
    CASE kind = "ShiftRightEquals" ->
           {<<"RightAngle", "RightAngle", "Equals">>, <<"RightAngle", "GreaterThanOrEquals">>}
      [] kind = "GreaterThanOrEquals" -> {<<"RightAngle", "Equals">>}
      [] OTHER -> {}

\* C2: at a `>>=` token the requests (`>`, `>`, `=`) and (`>`, `>=`), and at
\* a `>=` token the requests (`>`, `=`), succeed one after the other, and the
\* last of them leaves the point at the next token with no sub_offset.
C2_RemainderMatched ==
    \A i \in 0..(Len(tokens) - 1) :
      \A q \in Remainders(tokens[i + 1].kind) :
        LET m == InToken(i)
        IN  /\ ( /\ pt.offset = i
                 /\ IsPrefix(m, q) /\ m # q
                 /\ res.op = "token" /\ res.in.offset = i
                 /\ res.req = q[Len(m) + 1] )
               => res.status = "Success"
            /\ (m = q /\ hist[Len(hist)].from[1] = i)
               => pt = TokenPoint(i + 1, None, Rest(i + 1))

C2_Witness ==
    \E i \in 0..(Len(tokens) - 1) :
      /\ tokens[i + 1].kind = "ShiftRightEquals"
      /\ InToken(i) = <<"RightAngle", "RightAngle", "Equals">>
      /\ pt = TokenPoint(i + 1, None, Rest(i + 1))

\* C5: at a point with sub_offset k the token tested is the suffix of
\* split(tokens[offset], k), not the whole token; a match of the suffix is a
\* success at (offset + 1, no sub_offset), and only the suffix gives one.
C5_SuffixTested ==
    (res.op = "token" /\ res.in.sub_offset # None) =>
      LET original == Head(res.in.s)
          suffix == split(original, res.in.sub_offset[1])[1][2]
          whole == /\ res.status = "Success"
                   /\ res.point = TokenPoint(res.in.offset + 1, None, Tail(res.in.s))
      IN  /\ original = tokens[res.in.offset + 1]
          /\ suffix.kind = res.req => (whole /\ res.value = suffix.extent)
          /\ whole => suffix.kind = res.req

C5_Witness ==
    /\ res.op = "token"
    /\ res.in.sub_offset = Some(1)
    /\ res.req = "Equals"
    /\ res.status = "Success"
    /\ pt.offset = res.in.offset + 1

\* The token the whole-token test of a request looks at.
Tested(p) ==
    IF p.sub_offset = None THEN Head(p.s)
    ELSE split(Head(p.s), p.sub_offset[1])[1][2]

\* What the request returns when the splitter is consulted at position n.
SplitOutcome(n) ==
    LET halves == split(Head(res.in.s), n)
    IN  IF halves # None /\ halves[1][1].kind = res.req
        THEN /\ res.status = "Success"
             /\ res.point = TokenPoint(res.in.offset, Some(n), res.in.s)
             /\ res.value = halves[1][1].extent
        ELSE /\ res.status = "Failure"
             /\ res.point = res.in

WholeMismatch ==
    /\ res.op = "token"
    /\ res.in.s # <<>>
    /\ Tested(res.in).kind # res.req

\* The number of positions at which split handles a token.
valid_positions(tok) ==
    Cardinality({ n \in 0..MaxN : split(tok, n) # None })

\* C6 as stated: after a whole-token mismatch the splitter is consulted at
\* (sub_offset + 1) mod valid_positions (0 when no sub_offset is set).
C6_Original ==
    WholeMismatch =>
      LET vp == valid_positions(Head(res.in.s))
      IN  IF vp = 0 THEN res.status = "Failure" /\ res.point = res.in
          ELSE SplitOutcome(IF res.in.sub_offset = None THEN 0
                            ELSE (res.in.sub_offset[1] + 1) % vp)

\* C6 amended: after a whole-token mismatch the splitter is consulted at
\* sub_offset + 1 (0 when no sub_offset is set), without wrapping around; a
\* matching prefix is a success at the same token index with that sub_offset,
\* anything else a failure.
C6_SplitOnMismatch ==
    WholeMismatch =>
      SplitOutcome(IF res.in.sub_offset = None THEN 0 ELSE res.in.sub_offset[1] + 1)

C6_Witness ==
    /\ WholeMismatch
    /\ res.status = "Success"
    /\ res.in.sub_offset = Some(0)
    /\ pt.sub_offset = Some(1)
    /\ pt.offset = res.in.offset

\* Error::recoverable
recoverable(error) == TRUE

FailureAtIncomingPoint ==
    (res.op = "token" /\ res.status = "Failure") =>
      /\ res.error = ErrorOf(res.req)
      /\ recoverable(res.error)
      /\ res.point = res.in
      /\ pt = res.in
      /\ res.in.s = Rest(res.in.offset)

\* C10: a failed token match is a recoverable failure carrying the requested
\* expectation code at exactly the incoming point, and no token request
\* changes the token vector.
C10_FailureAtIncomingPoint ==
    []FailureAtIncomingPoint /\ [][tokens' = tokens]_vars

C10_Witness ==
    /\ res.op = "token"
    /\ res.status = "Failure"
    /\ res.in.sub_offset = Some(0)
    /\ res.req = "Equals"
    /\ Head(res.in.s).kind = "DoubleRightAngle"

\* A point whose sub_offset, if it has one, is a position the token at its
\* index splits at.
InsideToken(p) ==
    \/ p.sub_offset = None
    \/ /\ p.offset < Len(tokens)
       /\ p.s = Rest(p.offset)
       /\ p.sub_offset[1] \in {0, 1}
       /\ split(tokens[p.offset + 1], p.sub_offset[1]) # None
       /\ p.sub_offset[1] = 1 => tokens[p.offset + 1].kind = "ShiftRightEquals"

\* C27: at every point a parse reaches the sub_offset is absent, or 0 or 1
\* and a position the token at the index of the point splits at (1 only on
\* `>>=`), so that token never panics for a split it cannot resume.
C27_SubOffsetInsideToken ==
    /\ res.status # "Panic"
    /\ InsideToken(pt)
    /\ InsideToken(res.in)
    /\ InsideToken(res.point)

\* A point at the second position of a `>>=`.
C27_SecondPosition ==
    /\ pt.sub_offset = Some(1)
    /\ pt.offset = 1
    /\ tokens[2].kind = "ShiftRightEquals"
    /\ res.op = "token"
    /\ res.status = "Success"
    /\ res.in.sub_offset = Some(0)

\* The place of a location in the order: the index first, then no
\* sub_offset below 0 below 1.
Place(loc) == 3 * loc[1] + (IF loc[2] = None THEN 0 ELSE loc[2][1] + 1)

Ordered(a, b) ==
    cmp(a, b) = (CASE Place(location(a)) < Place(location(b)) -> "Less"
                   [] Place(location(a)) > Place(location(b)) -> "Greater"
                   [] OTHER -> "Equal")

\* C28: points are ordered by the token index and then by the sub_offset,
\* none below 0 below 1, and every token that matches returns a point above
\* the one it came in at: the next index with no sub_offset (from inside a
\* split token only when the suffix matched), or the same index with the next
\* position in the token; no point is below an earlier one.
C28_PointsMoveForward ==
    /\ \A a, b \in {pt, held, res.in, res.point} : Ordered(a, b)
    /\ (res.op = "token" /\ res.status = "Success") =>
          /\ cmp(res.point, res.in) = "Greater"
          /\ \/ /\ location(res.point) = <<res.in.offset + 1, None>>
                /\ res.in.sub_offset # None =>
                      token_convert(res.req,
                          split(Head(res.in.s), res.in.sub_offset[1])[1][2]) # None
             \/ /\ res.point.offset = res.in.offset
                /\ res.point.sub_offset = Some(next_sub_offset(res.in))
                /\ cmp_sub(res.point.sub_offset, res.in.sub_offset) = "Greater"
    /\ \A i \in 1..Len(hist) :
          /\ Place(hist[i].from) < Place(hist[i].to)
          /\ i > 1 => hist[i].from = hist[i - 1].to

\* A `>>=` taken in three steps: `>`, `>`, `=`.
C28_ThreeSteps ==
    /\ Len(hist) = 3
    /\ hist[1].from = <<0, None>>
    /\ hist[1].to = <<0, Some(0)>>
    /\ hist[2].to = <<0, Some(1)>>
    /\ hist[3].to = <<1, None>>

\* ---------------------------------------------------------------- lookahead

LookStreamKinds == {"RightAngle", "DoubleRightAngle", "ShiftRightEquals", "Ident"}

LookRequestKinds == {"RightAngle", "DoubleRightAngle", "Equals", "Ident"}

\* The errors the rules hand to `not`.
NotErrors == {"ExpectedIdent", "ExpectedExpression"}

InitLook ==
    /\ tokens \in Streams(LookStreamKinds, MaxTokens, TRUE)
    /\ pt = TokenPoint_new(tokens)
    /\ held = pt
    /\ res = NoResult(pt)
    /\ hist = <<>>
    /\ items = <<>>
    /\ pm = Failures_new

\* A rule looks at the token at the current point, and goes on from the
\* point of the progress when it succeeds.
Looked(r, op, req) ==
    /\ res.status # "Panic"
    /\ res' = Tagged(r, op, req, pt)
    /\ pt' = IF r.status = "Success" THEN r.point ELSE pt
    /\ UNCHANGED <<tokens, held, hist, items, pm>>

Peek(kind) ==
    Looked(peek(token(kind, ErrorOf(kind), pt), pt), "peek", <<kind, "">>)

Not(kind, error) ==
    Looked(not(token(kind, ErrorOf(kind), pt), error, pt), "not", <<kind, error>>)

Take(kind) ==
    Looked(token(kind, ErrorOf(kind), pt), "token", <<kind, "">>)

\* A rule computes the point k tokens on, k being at most the tokens left in
\* the slice, and keeps its own point.
AdvanceBy(k) ==
    /\ res.status # "Panic"
    /\ k <= Len(pt.s)
    /\ res' = Tagged(Success(advance_by(pt, k), <<>>), "advance_by", <<k, "">>, pt)
    /\ UNCHANGED <<tokens, pt, held, hist, items, pm>>

NextLook ==
    \/ \E kind \in LookRequestKinds : Peek(kind)
    \/ \E kind \in LookRequestKinds : \E error \in NotErrors : Not(kind, error)
    \/ \E kind \in LookRequestKinds : Take(kind)
    \/ \E k \in 0..(MaxTokens + 1) : AdvanceBy(k)

SpecLook == InitLook /\ [][NextLook]_vars

\* The progress of the parser the lookahead of res ran.
Inner == token(res.req[1], ErrorOf(res.req[1]), res.in)

\* C23: peek yields the value of its parser on success and its error on
\* failure, `not` succeeds exactly when its parser fails and fails with the
\* error it was handed otherwise, and in all four outcomes the point returned
\* is the incoming point.
C23_LookaheadKeepsPoint ==
    /\ res.op = "peek" =>
          /\ res.status = Inner.status
          /\ Inner.status = "Success" => res.value = Inner.value
          /\ Inner.status = "Failure" => res.error = Inner.error
          /\ res.point = res.in
          /\ pt = res.in
    /\ res.op = "not" =>
          /\ res.status = "Success" <=> Inner.status = "Failure"
          /\ res.status = "Failure" <=> Inner.status = "Success"
          /\ res.status = "Failure" => res.error = res.req[2]
          /\ res.point = res.in
          /\ pt = res.in

\* A `>` is seen inside a `>>` whose first half is taken: the token itself
\* would have moved on to the next token.
C23_PeekInsideSplit ==
    /\ res.op = "peek"
    /\ res.req[1] = "RightAngle"
    /\ res.in.sub_offset = Some(0)
    /\ res.status = "Success"
    /\ Inner.point.offset = res.in.offset + 1
    /\ res.point = res.in

\* C24: advance_by(k) returns a point whose token index is the old index
\* plus k, whose sub_offset is absent also when the old point is inside a
\* split token, and whose slice is the old slice without its first k tokens
\* (so the tokens from the new index on); the old point is as it was.
C24_AdvanceBy ==
    res.op = "advance_by" =>
      /\ res.point.offset = res.in.offset + res.req[1]
      /\ res.point.sub_offset = None
      /\ Len(res.point.s) = Len(res.in.s) - res.req[1]
      /\ \A i \in 1..Len(res.point.s) : res.point.s[i] = res.in.s[i + res.req[1]]
      /\ res.point.s = SubSeq(tokens, res.point.offset + 1, Len(tokens))
      /\ pt = res.in

\* Two tokens on from inside a split `>>`.
C24_FromInsideSplit ==
    /\ res.op = "advance_by"
    /\ res.req[1] = 2
    /\ res.in.sub_offset = Some(0)
    /\ res.in.offset = 1
    /\ res.point = TokenPoint(3, None, SubSeq(tokens, 4, Len(tokens)))
    /\ pt.sub_offset = Some(0)

\* ---------------------------------------------------------------- the error against the text

MaxText == 4        \* bytes of the text an error is displayed against

\* The bytes of a text: a newline and another byte.
Bytes == {"\n", "a"}

\* str::split_at
split_at(text, mid) ==
    <<SubSeq(text, 1, mid), SubSeq(text, mid + 1, Len(text))>>

\* str::find and str::rfind of a one-byte pattern: the index, counted from
\* zero, of the first and of the last byte that matches.
find(s, pat) ==
    IF \E i \in 1..Len(s) : s[i] = pat
    THEN Some((CHOOSE i \in 1..Len(s) :
                  s[i] = pat /\ \A j \in 1..(i - 1) : s[j] # pat) - 1)
    ELSE None

rfind(s, pat) ==
    IF \E i \in 1..Len(s) : s[i] = pat
    THEN Some((CHOOSE i \in 1..Len(s) :
                  s[i] = pat /\ \A j \in (i + 1)..Len(s) : s[j] # pat) - 1)
    ELSE None

\* Option::unwrap_or
unwrap_or(o, default) == IF o = None THEN default ELSE o[1]

\* `s.matches(pat).count()`
matches_count(s, pat) == Cardinality({ i \in 1..Len(s) : s[i] = pat })

HumanTextError(head_of_line, tail_of_line, line, column) ==
    [head_of_line |-> head_of_line, tail_of_line |-> tail_of_line,
     line |-> line, column |-> column]

\* HumanTextError::new, head and tail being the two halves of the text.
HumanTextError_of(head, tail) ==
    HumanTextError(
        SubSeq(head, unwrap_or(rfind(head, "\n"), 0) + 1, Len(head)),
        SubSeq(tail, 1, unwrap_or(find(tail, "\n"), Len(tail))),
        matches_count(head, "\n") + 1,
        Len(SubSeq(head, unwrap_or(rfind(head, "\n"), 0) + 1, Len(head))))

HumanTextError_new(text, byte) ==
    HumanTextError_of(split_at(text, byte)[1], split_at(text, byte)[2])

\* The text is held while its tokens are parsed.
InitText ==
    /\ \E n \in 0..MaxText : held \in [1..n -> Bytes]
    /\ tokens = <<>>
    /\ pt = TokenPoint_new(tokens)
    /\ res = NoResult(pt)
    /\ hist = <<>>
    /\ items = <<>>
    /\ pm = Failures_new

\* An error at a byte of the text (or at its end) is displayed against it.
Display(byte) ==
    /\ byte <= Len(held)
    /\ res' = [NoResult(pt) EXCEPT !.op = "display", !.req = byte,
                                   !.status = "Success",
                                   !.value = HumanTextError_new(held, byte)]
    /\ UNCHANGED <<tokens, pt, held, hist, items, pm>>

NextText == \E byte \in 0..MaxText : Display(byte)

SpecText == InitText /\ [][NextText]_vars

\* The byte the line of the location starts at.
LineStart(text, byte) ==
    IF \E i \in 1..byte : text[i] = "\n"
    THEN CHOOSE i \in 1..byte :
            text[i] = "\n" /\ \A j \in (i + 1)..byte : text[j] # "\n"
    ELSE 0

\* C25: the byte location of an error is resolved into the line and the
\* column of the byte, both counted from one: the line is one more than the
\* newlines before the location and the column one more than the bytes
\* between the start of the line and the location.
C25_LineAndColumn ==
    res.op = "display" =>
      /\ res.value.line = matches_count(SubSeq(held, 1, res.req), "\n") + 1
      /\ res.value.column = res.req - LineStart(held, res.req) + 1

\* ---------------------------------------------------------------- visiting

MaxDepth == 2       \* expressions nested in an expression

\* A value of an AST type: its fields in the order of their declaration, each
\* with the values it holds (one for a plain or boxed field, none or one for
\* an Option, any number for a Vec) and whether it is marked #[visit(ignore)].
Ast(type, fields) == [type |-> type, fields |-> fields]

Field(name, ignore, holds) == [name |-> name, ignore |-> ignore, holds |-> holds]

Extent == Ast("Extent", <<>>)

Bool == Ast("bool", <<>>)

extent_field == Field("extent", FALSE, <<Extent>>)

whitespace_field == Field("whitespace", FALSE, <<>>)

Ident == Ast("Ident", <<extent_field>>)

PathComponent ==
    Ast("PathComponent",
        <<extent_field, Field("ident", FALSE, <<Ident>>), Field("turbofish", FALSE, <<>>)>>)

\* FieldName::Path and FieldName::Number
FieldNames ==
    { Ast("FieldName", <<Field("0", FALSE, <<PathComponent>>)>>),
      Ast("FieldName", <<Field("0", FALSE, <<Extent>>)>>) }

Attribute_value ==
    Ast("Attribute", <<extent_field, Field("text", FALSE, <<Extent>>)>>)

Return(value) ==
    Ast("Return", <<extent_field, Field("value", FALSE, value), whitespace_field>>)

FieldAccess(target, field) ==
    Ast("FieldAccess",
        <<extent_field, Field("target", FALSE, <<target>>), Field("field", FALSE, <<field>>)>>)

Closure(body) ==
    Ast("Closure",
        <<extent_field, Field("is_move", TRUE, <<Bool>>), Field("args", FALSE, <<>>),
          Field("return_type", FALSE, <<>>), Field("body", FALSE, <<body>>),
          whitespace_field>>)

\* A variant of the enum Expression with its payload.
Expression(payload) == Ast("Expression", <<Field("0", FALSE, <<payload>>)>>)

AttributedExpression(attributes, value) ==
    Ast("Attributed",
        <<extent_field, Field("attributes", FALSE, attributes), Field("value", FALSE, <<value>>)>>)

RECURSIVE Expressions(_)

AttributedExpressions(depth) ==
    { AttributedExpression(attributes, e) :
        attributes \in {<<>>, <<Attribute_value>>}, e \in Expressions(depth) }

\* The expressions with at most `depth` expressions nested in one another.
Expressions(depth) ==
    IF depth = 0 THEN { Expression(Return(<<>>)) }
    ELSE Expressions(depth - 1)
           \cup { Expression(Return(<<a>>)) : a \in AttributedExpressions(depth - 1) }
           \cup { Expression(Closure(a)) : a \in AttributedExpressions(depth - 1) }
           \cup { Expression(FieldAccess(a, n)) :
                     a \in AttributedExpressions(depth - 1), n \in FieldNames }

\* How a type implements Visit: by the derive (for a struct or for an enum),
\* by visit_attributed!, or by an impl that does nothing.
Implements(type) ==
    CASE type \in {"Extent", "FieldName"} -> "nothing"
      [] type = "Attributed" -> "visit_attributed"
      [] type = "Expression" -> "enum"
      [] OTHER -> "struct"

is_ignore_field(f) == f.ignore

\* What is left to do of a traversal: to visit a value, or to call exit_* for
\* one; `at` is the way to the value from the root.
ToVisit(n, at) == [do |-> "visit", node |-> n, at |-> at]

ToExit(n, at) == [do |-> "exit", node |-> n, at |-> at]

RECURSIVE visit_fields(_, _, _, _)
\* `self.field.visit(v)` for the fields from the i-th on, and in a field for
\* the values from the j-th on (Box, Option and Vec visit what they hold, in
\* order).
visit_fields(n, at, i, j) ==
    CASE i > Len(n.fields) -> <<>>
      [] j > Len(n.fields[i].holds) -> visit_fields(n, at, i + 1, 1)
      [] OTHER -> <<ToVisit(n.fields[i].holds[j], at \o <<i, j>>)>>
                    \o visit_fields(n, at, i, j + 1)

\* The fields of a struct that are visited.
visited_fields(n) ==
    [n EXCEPT !.fields = [i \in 1..Len(n.fields) |->
        IF is_ignore_field(n.fields[i]) THEN [n.fields[i] EXCEPT !.holds = <<>>]
        ELSE n.fields[i]]]

\* impl_visit_fields: for an enum the payload of the variant, for a struct
\* the fields that are not ignored.
impl_visit_fields(n, at) ==
    IF Implements(n.type) = "enum" THEN <<ToVisit(n.fields[1].holds[1], at \o <<1, 1>>)>>
    ELSE visit_fields(visited_fields(n), at, 1, 1)

Entered(n, at) == [event |-> "visit", type |-> n.type, at |-> at]

Exited(n, at) == [event |-> "exit", type |-> n.type, at |-> at]

InitVisit ==
    /\ res \in AttributedExpressions(MaxDepth)
    /\ held = <<ToVisit(res, <<>>)>>
    /\ hist = <<>>
    /\ tokens = <<>>
    /\ pt = TokenPoint_new(tokens)
    /\ items = <<>>
    /\ pm = Failures_new

\* The impl the derive writes: `v.visit_name(self); fields`
VisitDerived ==
    /\ held # <<>>
    /\ Head(held).do = "visit"
    /\ Implements(Head(held).node.type) \in {"struct", "enum"}
    /\ hist' = Append(hist, Entered(Head(held).node, Head(held).at))
    /\ held' = impl_visit_fields(Head(held).node, Head(held).at) \o Tail(held)
    /\ UNCHANGED <<tokens, pt, res, items, pm>>

\* visit_attributed!: `v.$visit(self); self.attributes.visit(v);
\* self.value.visit(v); v.$exit(self);`
VisitAttributed ==
    /\ held # <<>>
    /\ Head(held).do = "visit"
    /\ Implements(Head(held).node.type) = "visit_attributed"
    /\ hist' = Append(hist, Entered(Head(held).node, Head(held).at))
    /\ held' = visit_fields(Head(held).node, Head(held).at, 2, 1)
                  \o <<ToExit(Head(held).node, Head(held).at)>> \o Tail(held)
    /\ UNCHANGED <<tokens, pt, res, items, pm>>

ExitAttributed ==
    /\ held # <<>>
    /\ Head(held).do = "exit"
    /\ hist' = Append(hist, Exited(Head(held).node, Head(held).at))
    /\ held' = Tail(held)
    /\ UNCHANGED <<tokens, pt, res, items, pm>>

\* The impls with an empty body: Extent, FieldName.
VisitNothing ==
    /\ held # <<>>
    /\ Head(held).do = "visit"
    /\ Implements(Head(held).node.type) = "nothing"
    /\ held' = Tail(held)
    /\ UNCHANGED <<tokens, pt, res, hist, items, pm>>

NextVisit ==
    \/ VisitDerived
    \/ VisitAttributed
    \/ ExitAttributed
    \/ VisitNothing

SpecVisit == InitVisit /\ [][NextVisit]_vars

\* The types the Visitor has a visit_* and an exit_* method for.
IsNode(n) == n.type \notin {"Extent", "bool", "FieldName"}

RECURSIVE Traversal(_, _)
RECURSIVE TraversalOfFields(_, _, _, _)

\* The calls for the values from the j-th of the i-th field on.
TraversalOfFields(n, at, i, j) ==
    CASE i > Len(n.fields) -> <<>>
      [] j > Len(n.fields[i].holds) \/ n.fields[i].ignore -> TraversalOfFields(n, at, i + 1, 1)
      [] OTHER -> Traversal(n.fields[i].holds[j], at \o <<i, j>>)
                    \o TraversalOfFields(n, at, i, j + 1)

\* The calls a visitor is to get for a value: for a node its visit_*, the
\* calls for what its fields hold, and its exit_*.
Traversal(n, at) ==
    IF IsNode(n)
    THEN <<Entered(n, at)>> \o TraversalOfFields(n, at, 1, 1) \o <<Exited(n, at)>>
    ELSE TraversalOfFields(n, at, 1, 1)

\* C26: the traversal of a node calls its visit_* first, then visits what
\* each field not marked #[visit(ignore)] holds, once and in the order of the
\* declaration, and calls its exit_* last: every node below the root is
\* entered, and every enter has its exit.
C26_EnterChildrenExit ==
    held = <<>> => hist = Traversal(res, <<>>)

\* ---------------------------------------------------------------- the splitter alone

InitSplit ==
    /\ tokens \in { <<Token(k, <<s, s + Width(k)>>)>> : k \in Kinds, s \in 0..MaxStart }
    /\ pt = TokenPoint_new(tokens)
    /\ held = pt
    /\ res = NoResult(pt)
    /\ hist = <<>>
    /\ items = <<>>
    /\ pm = Failures_new

\* split is called on the token at in-token position n.
SplitAt(n) ==
    /\ res' = [op |-> "split", n |-> n, out |-> split(tokens[1], n)]
    /\ UNCHANGED <<tokens, pt, held, hist, items, pm>>

NextSplit ==
    \E n \in 0..MaxN : SplitAt(n)

SpecSplit == InitSplit /\ [][NextSplit]_vars

\* The kinds of the table of the token splitter.
SplitTable(kind, n) ==
    CASE kind = "DoubleLeftAngle" /\ n = 0 -> Some(<<"LeftAngle", "LeftAngle">>)
      [] kind = "DoubleRightAngle" /\ n = 0 -> Some(<<"RightAngle", "RightAngle">>)
      [] kind = "ShiftRightEquals" /\ n = 0 -> Some(<<"RightAngle", "GreaterThanOrEquals">>)
      [] kind = "ShiftRightEquals" /\ n = 1 -> Some(<<"RightAngle", "Equals">>)
      [] kind = "GreaterThanOrEquals" /\ n = 0 -> Some(<<"RightAngle", "Equals">>)
      [] kind = "DoublePipe" /\ n = 0 -> Some(<<"Pipe", "Pipe">>)
      [] kind = "DoubleAmpersand" /\ n = 0 -> Some(<<"Ampersand", "Ampersand">>)
      [] OTHER -> None

FollowsTable ==
    res.op = "split" =>
      LET want == SplitTable(tokens[1].kind, res.n)
      IN  IF want = None THEN res.out = None
          ELSE /\ res.out # None
               /\ <<res.out[1][1].kind, res.out[1][2].kind>> = want[1]

\* C3: split returns the (prefix, suffix) kinds of the table, fails for every
\* other (token kind, n), and gives the same result whenever it is asked
\* again for the same (token, n).
C3_SplitTable ==
    /\ []FollowsTable
    /\ [][(res.op = "split" /\ res'.op = "split" /\ res'.n = res.n) => res'.out = res.out]_vars

C3_Witness ==
    /\ res.op = "split"
    /\ tokens[1].kind = "ShiftRightEquals"
    /\ res.n = 1
    /\ res.out # None
    /\ res.out[1][2].kind = "Equals"

\* The prefix and the suffix are adjacent and the prefix is strictly to the left.
Adjacent(prefix, suffix) ==
    /\ prefix.extent[1] < prefix.extent[2]
    /\ prefix.extent[2] = suffix.extent[1]
    /\ suffix.extent[1] < suffix.extent[2]

\* C4 as stated: the two extents of every handled split are adjacent, the
\* prefix to the left, and their union is the whole extent of the token.
C4_Original ==
    (res.op = "split" /\ res.out # None) =>
      /\ Adjacent(res.out[1][1], res.out[1][2])
      /\ <<res.out[1][1].extent[1], res.out[1][2].extent[2]>> = tokens[1].extent

\* C4 amended: the two extents of every handled split are adjacent, the
\* prefix to the left, and their union is the extent of the token from its
\* byte n on: the whole extent for n = 0, all but the first byte for n = 1.
C4_SplitIdentity ==
    (res.op = "split" /\ res.out # None) =>
      /\ Adjacent(res.out[1][1], res.out[1][2])
      /\ <<res.out[1][1].extent[1], res.out[1][2].extent[2]>>
           = <<tokens[1].extent[1] + res.n, tokens[1].extent[2]>>

C4_Witness ==
    /\ res.op = "split"
    /\ res.n = 1
    /\ res.out # None
    /\ res.out[1][1].extent = <<tokens[1].extent[1] + 1, tokens[1].extent[1] + 2>>
    /\ res.out[1][2].extent = <<tokens[1].extent[1] + 2, tokens[1].extent[2]>>

\* ---------------------------------------------------------------- extents of rules

ExStreamKinds == {"Ident", "DoubleRightAngle", "ShiftRightEquals"}

ExRequestKinds == {"Ident", "RightAngle", "Equals"}

InitEx ==
    /\ tokens \in Streams(ExStreamKinds, MaxTokens, FALSE)
    /\ pt = TokenPoint_new(tokens)
    /\ held = pt
    /\ res = NoResult(pt)
    /\ hist = <<>>
    /\ items = <<>>
    /\ pm = Failures_new

\* A rule captures its entry point: `spt = point`.
Mark ==
    /\ res.status # "Panic"
    /\ held # pt
    /\ held' = pt
    /\ UNCHANGED <<tokens, pt, res, hist, items, pm>>

\* A rule builds its node: `extent: pm.state.ex(spt, pt)`.
Ex ==
    /\ res.status # "Panic"
    /\ LET x == ex(held, pt)
       IN  res' = [op |-> "ex", start |-> held, end |-> pt,
                   status |-> IF x.panic THEN "Panic" ELSE "Success",
                   extent |-> x.extent]
    /\ UNCHANGED <<tokens, pt, held, hist, items, pm>>

NextEx ==
    \/ \E kind \in ExRequestKinds : Request(kind)
    \/ Mark
    \/ Ex

SpecEx == InitEx /\ [][NextEx]_vars

\* C8: ex resolves an end point at sub_offset k inside a split token to that
\* token's start byte + k + 1, and a start point at sub_offset k likewise,
\* whatever whitespace lies before the split token.
C8_SubOffsetBytes ==
    (res.op = "ex" /\ res.status = "Success") =>
      /\ res.end.sub_offset # None =>
           res.extent[2] = tokens[res.end.offset + 1].extent[1] + res.end.sub_offset[1] + 1
      /\ res.start.sub_offset # None =>
           res.extent[1] = tokens[res.start.offset + 1].extent[1] + res.start.sub_offset[1] + 1

\* ---------------------------------------------------------------- nodes of patterns

\* A rule runs a parser at the current point, with a master of its own, and
\* goes on from the point of its progress; on failure it keeps its own point.
Combined(r, op, use) ==
    /\ res.status # "Panic"
    /\ res' = Tagged(r, op, use, pt)
    /\ pt' = IF r.status = "Success" THEN r.point ELSE pt
    /\ pm' = master(Failures_new, r.consumed)
    /\ UNCHANGED <<tokens, held, hist, items>>

PatternStreamKinds == {"Ref", "Mut", "Ident", "At", "Number", "Minus"}

InitPattern ==
    /\ tokens \in Streams(PatternStreamKinds, MaxTokens, FALSE)
    /\ pt = TokenPoint_new(tokens)
    /\ held = pt
    /\ res = NoResult(pt)
    /\ hist = <<>>
    /\ items = <<>>
    /\ pm = Failures_new

\* A rule asks for a pattern at the current point.
ParsePattern ==
    Combined(pattern(pt), "pattern", "")

NextPattern == ParsePattern

SpecPattern == InitPattern /\ [][NextPattern]_vars

Encloses(outer, inner) ==
    outer[1] <= inner[1] /\ inner[2] <= outer[2]

\* The node and the nodes below it (a pattern is at most three levels deep).
Nodes(n) ==
    {n} \cup { n.children[i] : i \in 1..Len(n.children) }
        \cup UNION { { n.children[i].children[j] : j \in 1..Len(n.children[i].children) } :
                       i \in 1..Len(n.children) }

\* C7: the extent of every node a rule builds encloses the extents of its
\* children and is the byte span from the start of the first token to the end
\* of the last token the rule consumed.
C7_ExtentCoversTokens ==
    (res.op = "pattern" /\ res.status = "Success") =>
      \A n \in Nodes(res.value) :
        /\ \A i \in 1..Len(n.children) : Encloses(n.extent, n.children[i].extent)
        /\ n.last > n.first
        /\ n.extent = <<tokens[n.first + 1].extent[1], tokens[n.last].extent[2]>>

\* ---------------------------------------------------------------- lists

TailedStreamKinds ==
    {"Ident", "Colon", "Comma", "Semicolon", "LeftCurly", "RightCurly", "RightParen"}

\* The separator and the value parser the grammar hands to the combinators.
TailedUses == {<<"comma", "function_argument">>, <<"comma", "ident">>}

ImplicitlyTailedUses == {<<"semicolon", "statement">>}

InitTailed ==
    /\ tokens \in Streams(TailedStreamKinds, MaxTokens, TRUE)
    /\ pt = TokenPoint_new(tokens)
    /\ held = pt
    /\ res = NoResult(pt)
    /\ hist = <<>>
    /\ items = <<>>
    /\ pm = Failures_new

ZeroOrMoreTailed(use) ==
    Combined(zero_or_more_tailed(use[1], use[2], pt), "zero_or_more_tailed", use)

OneOrMoreTailed(use) ==
    Combined(one_or_more_tailed(use[1], use[2], pt), "one_or_more_tailed", use)

ZeroOrMoreImplicitlyTailed(use) ==
    Combined(zero_or_more_implicitly_tailed_append(Tailed_default, use[1], use[2], pt),
             "zero_or_more_implicitly_tailed", use)

NextTailed ==
    \/ \E use \in TailedUses : ZeroOrMoreTailed(use)
    \/ \E use \in TailedUses : OneOrMoreTailed(use)
    \/ \E use \in ImplicitlyTailedUses : ZeroOrMoreImplicitlyTailed(use)

SpecTailed == InitTailed /\ [][NextTailed]_vars

\* A rule parses one value, without the separator behind it.
ParseValue(use) ==
    Combined(apply(use[2], pt), "value", use)

\* A rule that has parsed one value asks for the values behind a separator.
ZeroOrMoreTailedValuesResume(use) ==
    \E r \in {zero_or_more_tailed_values_resume(use[1], use[2], pt)} :
        Combined(r, "zero_or_more_tailed_values_resume", use)

NextResume ==
    \/ \E use \in TailedUses : ParseValue(use)
    \/ \E use \in TailedUses : ZeroOrMoreTailedValuesResume(use)

SpecResume == InitTailed /\ [][NextResume]_vars

TailedOps ==
    {"zero_or_more_tailed", "one_or_more_tailed", "zero_or_more_implicitly_tailed"}

RECURSIVE LastGood(_, _, _, _)
RECURSIVE LastGoodAfter(_, _, _, _, _)

\* The same, st being the outcome of the first value and separator.
LastGoodAfter(op, sep, f, p, st) ==
    CASE st.state = "Nothing" -> p
      [] st.state = "ValueAndSeparator" -> LastGood(op, sep, f, st.point)
      [] op = "zero_or_more_implicitly_tailed" /\ is_implicit_separator(st.value) ->
           LastGood(op, sep, f, st.point)
      [] OTHER -> st.point

\* The point after the last value or separator that parsed, in a list that
\* starts at p: what is left of a value that did not parse is given back.
LastGood(op, sep, f, p) ==
    LastGoodAfter(op, sep, f, p, parse_tailed(sep, f, p))

\* C9: a tailed combinator whose value parser fails part-way through a
\* further value succeeds at the point after the last value or separator
\* that parsed; it consumes no token of the failed attempt.
C9_FailedValueNotConsumed ==
    (res.op \in TailedOps /\ res.status = "Success") =>
      res.point = LastGood(res.op, res.req[1], res.req[2], res.in)

RECURSIVE EndingFailure(_, _, _, _)

\* The same, s being the progress of the separator after the value of v.
EndingAfterSeparator(op, sep, f, v, s) ==
    CASE s.status = "Success" -> EndingFailure(op, sep, f, s.point)
      [] op = "zero_or_more_implicitly_tailed" /\ is_implicit_separator(v.value) ->
           EndingFailure(op, sep, f, s.point)
      [] OTHER -> s

\* The same, v being the progress of the value.
EndingAfterValue(op, sep, f, v) ==
    IF v.status # "Success" THEN v
    ELSE EndingAfterSeparator(op, sep, f, v, apply(sep, v.point))

\* The progress of the value parser or of the separator parser that ends the
\* list that starts at p.
EndingFailure(op, sep, f, p) ==
    EndingAfterValue(op, sep, f, apply(f, p))

\* C15: the failure that ends a tailed combinator is suppressed, and its
\* expectation code is among the failures handed to the parse master, at the
\* point of the failure.
C15_EndingFailureRecorded ==
    (/\ res.op \in TailedOps
     /\ res.status = "Success"
     /\ EndingFailure(res.op, res.req[1], res.req[2], res.in).status = "Failure") =>
      \E i \in 1..Len(res.consumed) :
         /\ res.consumed[i].error
              = EndingFailure(res.op, res.req[1], res.req[2], res.in).error
         /\ cmp(res.consumed[i].point,
                EndingFailure(res.op, res.req[1], res.req[2], res.in).point) = "Equal"


\* ---------------------------------------------------------------- claims on the lists

\* The tokens a value of the list takes: an identifier, or an argument
\* `name: type`.
ValueWidth(f) == IF f = "ident" THEN 1 ELSE 3

KindAt(i) == IF i \in 1..Len(tokens) THEN tokens[i].kind ELSE ""

\* A value of the list starts at the token index.
IsValue(f, at) ==
    IF f = "ident" THEN KindAt(at + 1) = "Ident"
    ELSE KindAt(at + 1) = "Ident" /\ KindAt(at + 2) = "Colon" /\ KindAt(at + 3) = "Ident"

\* n values stand at the token index `from`, a comma between each two.
Listed(f, from, n) ==
    \A i \in 0..(n - 1) :
       /\ IsValue(f, from + i * (ValueWidth(f) + 1))
       /\ i > 0 => KindAt(from + i * (ValueWidth(f) + 1)) = "Comma"

\* The number of values of the list `v (sep v)*` at the token index.
Values(f, from) ==
    CHOOSE n \in 0..Len(tokens) : Listed(f, from, n) /\ ~Listed(f, from, n + 1)

\* A separator stands behind the last of the n values.
Trailing(f, from, n) == KindAt(from + n * (ValueWidth(f) + 1)) = "Comma"

\* C19: on a list `v (sep v)* sep?` zero_or_more_tailed and one_or_more_tailed
\* return every value in the order of the source and the number of separators
\* they consumed: as many as the values with a trailing separator, one less
\* without, none for no value (where one_or_more_tailed fails); a value with
\* no separator in front of it is not part of the list.
C19_ValuesAndSeparators ==
    (res.op \in {"zero_or_more_tailed", "one_or_more_tailed"} /\ res.status # "Panic") =>
      IF Values(res.req[2], res.in.offset) = 0
      THEN IF res.op = "one_or_more_tailed" THEN res.status = "Failure"
           ELSE /\ res.status = "Success"
                /\ res.value.values = <<>>
                /\ res.value.separator_count = 0
      ELSE /\ res.status = "Success"
           /\ Len(res.value.values) = Values(res.req[2], res.in.offset)
           /\ \A i \in 1..Len(res.value.values) :
                 /\ res.value.values[i].first
                      = res.in.offset + (i - 1) * (ValueWidth(res.req[2]) + 1)
                 /\ res.value.values[i].last
                      = res.value.values[i].first + ValueWidth(res.req[2])
           /\ res.value.separator_count
                = IF Trailing(res.req[2], res.in.offset, Len(res.value.values))
                  THEN Len(res.value.values)
                  ELSE Len(res.value.values) - 1

C19_TwoValues ==
    /\ res.op \in {"zero_or_more_tailed", "one_or_more_tailed"}
    /\ res.req = <<"comma", "ident">>
    /\ res.status = "Success"
    /\ Len(res.value.values) = 2
    /\ res.value.separator_count = 1
    /\ res.point.offset = res.in.offset + 3


\* The separator of the list stands behind the value.
SeparatorBehind(sep, v) ==
    KindAt(v.last + 1) = (IF sep = "comma" THEN "Comma" ELSE "Semicolon")

\* C20: a tailed combinator returns last_had_separator true exactly when it
\* consumed a separator behind the last of its values.
C20_LastHadSeparator ==
    (res.op \in TailedOps /\ res.status = "Success") =>
      res.value.last_had_separator
        = IF res.value.values = <<>> THEN FALSE
          ELSE SeparatorBehind(res.req[1], res.value.values[Len(res.value.values)])

\* C21: when no first value parses, one_or_more_tailed fails with the error
\* of the value parser at the point of that failure, and the master is handed
\* nothing but what the value parser handed it, while zero_or_more_tailed
\* succeeds with no value and no separator counted.
C21_NoFirstValue ==
    (/\ res.op \in {"zero_or_more_tailed", "one_or_more_tailed"}
     /\ apply(res.req[2], res.in).status = "Failure") =>
      IF res.op = "one_or_more_tailed"
      THEN /\ res.status = "Failure"
           /\ res.error = apply(res.req[2], res.in).error
           /\ res.point = apply(res.req[2], res.in).point
           /\ res.consumed = apply(res.req[2], res.in).consumed
           /\ pt = res.in
      ELSE /\ res.status = "Success"
           /\ res.value.values = <<>>
           /\ res.value.separator_count = 0

\* one_or_more_tailed of arguments on `a ,`: the colon is missing at token 1.
C21_MissingColon ==
    /\ res.op = "one_or_more_tailed"
    /\ res.req = <<"comma", "function_argument">>
    /\ res.status = "Failure"
    /\ res.error = "ExpectedColon"
    /\ res.in.offset = 0
    /\ res.point.offset = 1
    /\ pt.offset = 0

\* C22: zero_or_more_tailed_values_resume always succeeds: with no separator
\* at the point, or with a separator and no value behind it, it returns no
\* value at the incoming point (the separator is given back); otherwise it
\* returns the values of the list behind the separator, in order.
C22_Resume ==
    res.op = "zero_or_more_tailed_values_resume" =>
      /\ res.status = "Success"
      /\ IF KindAt(res.in.offset + 1) # "Comma"
            \/ Values(res.req[2], res.in.offset + 1) = 0
         THEN /\ res.value = <<>>
              /\ res.point = res.in
              /\ pt = res.in
         ELSE /\ Len(res.value) = Values(res.req[2], res.in.offset + 1)
              /\ \A i \in 1..Len(res.value) :
                    /\ res.value[i].first
                         = res.in.offset + 1 + (i - 1) * (ValueWidth(res.req[2]) + 1)
                    /\ res.value[i].last
                         = res.value[i].first + ValueWidth(res.req[2])
              /\ res.point.offset >= res.value[Len(res.value)].last

\* Behind the value `a` of `a , ;` the separator matches and no value
\* follows: the point stays in front of the separator.
C22_SeparatorGivenBack ==
    /\ res.op = "zero_or_more_tailed_values_resume"
    /\ res.in.offset = 1
    /\ KindAt(1) = "Ident"
    /\ KindAt(2) = "Comma"
    /\ KindAt(3) = "Semicolon"
    /\ res.status = "Success"
    /\ res.value = <<>>
    /\ res.point = res.in

\* ---------------------------------------------------------------- blocks

MaxBlockTokens == 4

BlockStreamKinds == {"LeftCurly", "RightCurly", "Ident", "Semicolon", "Mod", "Bang"}

\* The vectors of a block: an opening brace and up to MaxBlockTokens tokens.
InitBlock ==
    /\ \E m \in 0..MaxBlockTokens :
          \E ks \in [1..m -> BlockStreamKinds] : tokens = Stream(<<"LeftCurly">> \o ks)
    /\ pt = TokenPoint_new(tokens)
    /\ held = pt
    /\ res = NoResult(pt)
    /\ hist = <<>>
    /\ items = <<>>
    /\ pm = Failures_new

ParseBlock == Combined(block(pt), "block", "")

ParseStatements ==
    Combined(zero_or_more_implicitly_tailed_append(Tailed_default, "semicolon",
                                                   "statement", pt),
             "zero_or_more_implicitly_tailed", <<"semicolon", "statement">>)

NextBlock == ParseBlock \/ ParseStatements

SpecBlock == InitBlock /\ [][NextBlock]_vars

\* An explicit `;` was consumed after the statement: the token it ends in
\* front of is one.
FollowedBySemicolon(v) == tokens[v.last + 1].kind = "Semicolon"

\* The last statement of the block is an expression with no `;` after it.
EndsInExpression(b) ==
    IF b.children = <<>> THEN FALSE
    ELSE /\ is_expression(b.children[Len(b.children)])
         /\ ~FollowedBySemicolon(b.children[Len(b.children)])

\* C16: a block has an `expression` exactly when its last statement is an
\* expression with no `;` consumed after it, the statement is then taken out
\* of `statements`; otherwise `statements` keeps every statement.
C16_TrailingExpression ==
    (res.op = "block" /\ res.status = "Success") =>
      IF EndsInExpression(res.value)
      THEN /\ res.value.expression = Some(res.value.children[Len(res.value.children)])
           /\ res.value.statements
                = SubSeq(res.value.children, 1, Len(res.value.children) - 1)
      ELSE /\ res.value.expression = None
           /\ res.value.statements = res.value.children


\* A statement that needs no `;` behind it: an item, a block, a macro call
\* with its arguments in braces.
ImplicitlySeparated(v) == v.type \in {"Attributed", "Block", "MacroCall"}

\* The token index the list goes on from behind the statement.
NextAt(v) == IF FollowedBySemicolon(v) THEN v.last + 1 ELSE v.last

\* C17: in a list of statements, a statement that is an item or an expression
\* that may terminate a statement is followed by the next statement with no
\* `;` between them, the list going on until no statement parses; any other
\* statement goes on to a next statement only over a `;`, and ends the list
\* where it ends when none follows.
C17_ImplicitSeparation ==
    (res.op = "zero_or_more_implicitly_tailed" /\ res.status = "Success") =>
      /\ res.value.values # <<>> => res.value.values[1].first = res.in.offset
      /\ \A i \in 1..Len(res.value.values) :
            IF FollowedBySemicolon(res.value.values[i])
               \/ ImplicitlySeparated(res.value.values[i])
            THEN IF i < Len(res.value.values)
                 THEN res.value.values[i + 1].first = NextAt(res.value.values[i])
                 ELSE statement(advance_by(TokenPoint_new(tokens),
                                           NextAt(res.value.values[i]))).status
                        # "Success"
            ELSE /\ i = Len(res.value.values)
                 /\ res.point.offset = res.value.values[i].last

C17_ItemAfterBlock ==
    /\ res.op = "zero_or_more_implicitly_tailed"
    /\ res.status = "Success"
    /\ Len(res.value.values) = 2
    /\ res.value.values[1].type = "Block"
    /\ res.value.values[2].type = "Attributed"
    /\ res.value.values[2].first = res.value.values[1].last
    /\ FollowedBySemicolon(res.value.values[2]) = FALSE


\* ---------------------------------------------------------------- the loop of the statements

MaxLoopTokens == 3

\* The vectors behind the opening brace of a block.
InitLoop ==
    /\ \E m \in 0..MaxLoopTokens :
          \E ks \in [1..m -> BlockStreamKinds] : tokens = Stream(ks)
    /\ pt = TokenPoint_new(tokens)
    /\ held = Tailed_default
    /\ res = NoResult(pt)
    /\ hist = <<>>
    /\ items = <<>>
    /\ pm = Failures_new

\* One turn of the loop from the point with the values so far.
turn(tailed, p) ==
    zero_or_more_implicitly_tailed_turn(
        tailed, parse_tailed("semicolon", "statement", p))

\* The loop is at its top.
AtLoop == res.op \in {"none", "continue"}

\* A turn through an arm that ends in `continue`.
Continue ==
    /\ AtLoop
    /\ turn(held, pt).continue
    /\ pt' = turn(held, pt).point
    /\ held' = turn(held, pt).tailed
    /\ res' = [NoResult(pt') EXCEPT !.op = "continue"]
    /\ hist' = Append(hist, pt.offset)
    /\ UNCHANGED <<tokens, items, pm>>

\* A turn through an arm that ends in `return`.
Return_loop ==
    /\ AtLoop
    /\ ~turn(held, pt).continue
    /\ held' = turn(held, pt).tailed
    /\ res' = Tagged(Success(turn(held, pt).point, held'), "return",
                     <<"semicolon", "statement">>, TokenPoint_new(tokens))
    /\ hist' = Append(hist, pt.offset)
    /\ UNCHANGED <<tokens, pt, items, pm>>

NextLoop == Continue \/ Return_loop

SpecLoop == InitLoop /\ [][NextLoop]_vars

\* The loop is not held up: at its top it takes its next turn.
SpecLoopFair ==
    /\ SpecLoop
    /\ ([]<>(~AtLoop) \/ []<><<NextLoop>>_vars)

\* The statements that separate themselves from the next: items, blocks and
\* macro calls in braces.
SeparatesItself(v) == v.type \in {"Attributed", "Block", "MacroCall"}

\* The statement of the last turn.
LastValue == held.values[Len(held.values)]

\* C30: the loop of the statements returns on every vector: a turn that goes
\* on has taken at least one token, the empty statement (which takes none)
\* goes on only over the `;` it stands in front of, as does every statement
\* that does not separate itself from the next; what the loop returns is what
\* zero_or_more_implicitly_tailed_append returns.
C30_StatementLoopReturns ==
    /\ [](/\ Len(hist) <= Len(tokens) + 1
          /\ \A i, j \in 1..Len(hist) : i < j => hist[i] < hist[j]
          /\ res.op = "continue" =>
                /\ pt.offset > hist[Len(hist)]
                /\ ~SeparatesItself(LastValue) =>
                      /\ held.last_had_separator
                      /\ tokens[pt.offset].kind = "Semicolon"
                /\ LastValue.type = "Empty" => pt.offset = hist[Len(hist)] + 1
          /\ res.op = "return" =>
                /\ res.point
                     = zero_or_more_implicitly_tailed_append(
                           Tailed_default, "semicolon", "statement", res.in).point
                /\ res.value
                     = zero_or_more_implicitly_tailed_append(
                           Tailed_default, "semicolon", "statement", res.in).value)
    /\ [][res'.op = "continue" => pt'.offset > pt.offset]_vars
    /\ <>(res.op = "return")

\* `; ; a`: two empty statements, each going on over its `;`, and a value
\* that ends the loop.
C30_EmptyStatements ==
    /\ res.op = "return"
    /\ hist = <<0, 1, 2>>
    /\ Len(res.value.values) = 3
    /\ res.value.values[1].type = "Empty"
    /\ res.value.values[2].type = "Empty"
    /\ res.value.values[3].type = "Value"
    /\ res.point.offset = 3

\* ---------------------------------------------------------------- nested brackets

MaxNestedTokens == 5

NestedStreamKinds == {"LeftParen", "RightParen", "LeftCurly", "RightCurly", "Ident"}

\* The open and the close token the grammar hands to parse_nested_until.
Brackets == {<<"LeftParen", "RightParen">>, <<"LeftCurly", "RightCurly">>}

InitNested ==
    /\ \E m \in 0..MaxNestedTokens :
          \E ks \in [1..m -> NestedStreamKinds] : tokens = Stream(ks)
    /\ pt = TokenPoint_new(tokens)
    /\ held = pt
    /\ res = NoResult(pt)
    /\ hist = <<>>
    /\ items = <<>>
    /\ pm = Failures_new

\* The rules that skip what is between brackets take the open token, then
\* parse_nested_until, then the close token.
Open(b) ==
    /\ res.op # "open"
    /\ Combined(token(b[1], ErrorOf(b[1]), pt), "open", b)

ParseNestedUntil(b) ==
    /\ res.op = "open"
    /\ res.status = "Success"
    /\ res.req = b
    /\ Combined(parse_nested_until(b[1], b[2], pt), "parse_nested_until", b)

Close(b) ==
    /\ res.op = "parse_nested_until"
    /\ res.req = b
    /\ Combined(token(b[2], ErrorOf(b[2]), pt), "close", b)

NextNested ==
    \/ \E b \in Brackets : Open(b)
    \/ \E b \in Brackets : ParseNestedUntil(b)
    \/ \E b \in Brackets : Close(b)

SpecNested == InitNested /\ [][NextNested]_vars

\* How many of the first n tokens from token index `from` on are of the kind.
Count(kind, from, n) ==
    Cardinality({ i \in 1..n : tokens[from + i].kind = kind })

\* The depth after the first n tokens from token index `from` on.
Depth(b, from, n) == Count(b[1], from, n) - Count(b[2], from, n)

\* What parse_nested_until does apart from the matching of the brackets: it
\* succeeds, stops in front of the first close token at depth zero or of the
\* end-of-file token, never has a depth below zero, and returns the extent of
\* the tokens it skipped.
NestedScan ==
    /\ res.status = "Success"
    /\ res.point.offset >= res.in.offset
    /\ res.point.offset < Len(tokens)
    /\ res.point.sub_offset = None
    /\ \/ tokens[res.point.offset + 1].kind = "EndOfFile"
       \/ /\ tokens[res.point.offset + 1].kind = res.req[2]
          /\ Depth(res.req, res.in.offset, res.point.offset - res.in.offset) = 0
    /\ \A n \in 0..(res.point.offset - res.in.offset - 1) :
          /\ tokens[res.in.offset + n + 1].kind # "EndOfFile"
          /\ ~(/\ tokens[res.in.offset + n + 1].kind = res.req[2]
               /\ Depth(res.req, res.in.offset, n) = 0)
    /\ \A n \in 0..(res.point.offset - res.in.offset) :
          Depth(res.req, res.in.offset, n) >= 0
    /\ res.value = IF res.point.offset = res.in.offset
                   THEN <<tokens[res.in.offset + 1].extent[1],
                          tokens[res.in.offset + 1].extent[1]>>
                   ELSE <<tokens[res.in.offset + 1].extent[1],
                          tokens[res.point.offset].extent[2]>>

\* C18 as stated: parse_nested_until always succeeds, stops in front of the
\* first close token at depth zero or of the end-of-file token, and every
\* open token it skipped has its close token skipped too.
C18_Original ==
    res.op = "parse_nested_until" =>
      /\ NestedScan
      /\ Depth(res.req, res.in.offset, res.point.offset - res.in.offset) = 0

\* C18: parse_nested_until always succeeds, stops in front of the first
\* close token at depth zero or of the end-of-file token, and when it stops
\* in front of a close token every open token it skipped has its close token
\* skipped too; in front of the end-of-file token the open tokens it skipped
\* may be left open.
C18_NestedScan ==
    res.op = "parse_nested_until" =>
      /\ NestedScan
      /\ tokens[res.point.offset + 1].kind # "EndOfFile" =>
           Depth(res.req, res.in.offset, res.point.offset - res.in.offset) = 0

C18_SkippedNested ==
    /\ res.op = "parse_nested_until"
    /\ res.status = "Success"
    /\ res.point.offset - res.in.offset >= 3
    /\ tokens[res.point.offset + 1].kind = res.req[2]
    /\ Count(res.req[1], res.in.offset, res.point.offset - res.in.offset) = 1


\* ---------------------------------------------------------------- rules over split tokens

MaxRuleTokens == 3

RuleStreamKinds ==
    {"DoubleRightAngle", "ShiftRightEquals", "LeftParen", "RightParen", "Ident"}

RuleRequestKinds == {"RightAngle", "Equals", "Ident"}

RuleBrackets == {<<"LeftParen", "RightParen">>}

InitRules ==
    /\ \E m \in 0..MaxRuleTokens :
          \E ks \in [1..m -> RuleStreamKinds] : tokens = Stream(ks)
    /\ pt = TokenPoint_new(tokens)
    /\ held = pt
    /\ res = NoResult(pt)
    /\ hist = <<>>
    /\ items = <<>>
    /\ pm = Failures_new

\* An alternative of the rule has failed: its progress and the tokens it
\* took are dropped and the next one starts where the rule was entered.
Backtrack ==
    /\ res.status # "Panic"
    /\ pt # held
    /\ pt' = held
    /\ res' = NoResult(held)
    /\ hist' = <<>>
    /\ UNCHANGED <<tokens, held, items, pm>>

\* Rules take tokens, capture their entry point, build their extent, and skip
\* what is between brackets.
NextRules ==
    \/ \E kind \in RuleRequestKinds : Request(kind)
    \/ Mark
    \/ Backtrack
    \/ Ex
    \/ \E b \in RuleBrackets : Open(b)
    \/ \E b \in RuleBrackets : ParseNestedUntil(b)
    \/ \E b \in RuleBrackets : Close(b)

SpecRules == InitRules /\ [][NextRules]_vars

\* C29: State::ex is only called with a start that is not above its end in
\* the order of the points and that has a token left in its slice, so that it
\* never panics; parse_nested_until is never entered at a point inside a
\* split token.
C29_ExNeverPanics ==
    /\ res.status # "Panic"
    /\ cmp(held, pt) # "Greater"
    /\ held.s # <<>>
    /\ res.op = "ex" =>
          /\ cmp(res.start, res.end) # "Greater"
          /\ res.start.s # <<>>
          /\ res.end.offset - res.start.offset <= Len(res.start.s)
    /\ res.op = "parse_nested_until" =>
          /\ res.in.sub_offset = None
          /\ res.in.s # <<>>
          /\ cmp(res.in, res.point) # "Greater"
    /\ (res.op = "open" /\ res.in.sub_offset # None) => res.status = "Failure"

\* Behind a `>>` taken as two `>` the brackets `( )` are entered, with
\* nothing between them.
C29_BracketsBehindSplit ==
    /\ res.op = "parse_nested_until"
    /\ res.status = "Success"
    /\ tokens[1].kind = "DoubleRightAngle"
    /\ Len(hist) = 2
    /\ res.in.offset = 2
    /\ res.point = res.in

\* ---------------------------------------------------------------- the file

MaxFileTokens == 4

\* The Error enum, in the order of its declaration (the order of Ord).
Error ==
    <<"ExpectedAmpersand", "ExpectedAmpersandEquals", "ExpectedAs",
      "ExpectedAsterisk", "ExpectedAt", "ExpectedBackslash", "ExpectedBang",
      "ExpectedBox", "ExpectedBreak", "ExpectedByte", "ExpectedByteString",
      "ExpectedByteStringRaw", "ExpectedCaret", "ExpectedCaretEquals",
      "ExpectedCharacter", "ExpectedColon", "ExpectedComma", "ExpectedConst",
      "ExpectedContinue", "ExpectedCrate", "ExpectedDefault",
      "ExpectedDivideEquals", "ExpectedDollar", "ExpectedDoubleAmpersand",
      "ExpectedDoubleColon", "ExpectedDoubleEquals",
      "ExpectedDoubleLeftAngle", "ExpectedDoublePeriod",
      "ExpectedDoublePipe", "ExpectedDoubleRightAngle", "ExpectedElse",
      "ExpectedEnum", "ExpectedEquals", "ExpectedExtern", "ExpectedFn",
      "ExpectedFor", "ExpectedGreaterThanOrEquals", "ExpectedHash",
      "ExpectedIdent", "ExpectedIf", "ExpectedImpl", "ExpectedIn",
      "ExpectedLeftAngle", "ExpectedLeftCurly", "ExpectedLeftParen",
      "ExpectedLeftSquare", "ExpectedLessThanOrEquals", "ExpectedLet",
      "ExpectedLifetime", "ExpectedLoop", "ExpectedMatch", "ExpectedMinus",
      "ExpectedMinusEquals", "ExpectedMod", "ExpectedMove", "ExpectedMut",
      "ExpectedNotEqual", "ExpectedNumber", "ExpectedPercent",
      "ExpectedPercentEquals", "ExpectedPeriod", "ExpectedPipe",
      "ExpectedPipeEquals", "ExpectedPlus", "ExpectedPlusEquals",
      "ExpectedPub", "ExpectedQuestionMark", "ExpectedRef", "ExpectedReturn",
      "ExpectedRightAngle", "ExpectedRightCurly", "ExpectedRightParen",
      "ExpectedRightSquare", "ExpectedSelfIdent", "ExpectedSemicolon",
      "ExpectedShiftLeftEquals", "ExpectedShiftRightEquals", "ExpectedSlash",
      "ExpectedStatic", "ExpectedString", "ExpectedStringRaw",
      "ExpectedStruct", "ExpectedThickArrow", "ExpectedThinArrow",
      "ExpectedTilde", "ExpectedTimesEquals", "ExpectedTrait",
      "ExpectedTriplePeriod", "ExpectedType", "ExpectedUnion",
      "ExpectedUnsafe", "ExpectedUse", "ExpectedWhere", "ExpectedWhile",
      "ExpectedExpression", "BlockNotAllowedHere">>

\* A BTreeSet of errors, as the sequence its iteration gives.
BTreeSet(S) == SelectSeq(Error, LAMBDA e : e \in S)

\* `e.into_iter().collect()`
collect(e) == BTreeSet({ e[i] : i \in 1..Len(e) })

Ok(file) ==
    [op |-> "parse_rust_file", status |-> "Ok", items |-> file]

\* `Err(ErrorDetail::Parser(ParserErrorDetail { location, errors }))`, with
\* the point it was made at and the failures the failed item parse recorded.
Err(byte, errors, finished, r) ==
    [op |-> "parse_rust_file", status |-> "Err", location |-> byte,
     errors |-> errors, point |-> finished.point, recorded |-> consume(r)]

panic(message) ==
    [op |-> "parse_rust_file", status |-> "Panic", message |-> message]

\* `pt.s.first().map(Token::is_end_of_file).unwrap_or(true)`
at_end_of_file_or_semicolon(p) ==
    IF p.s = <<>> THEN TRUE ELSE Head(p.s).kind \in {"EndOfFile", "Semicolon"}

at_end_of_file(p) ==
    IF p.s = <<>> THEN TRUE ELSE Head(p.s).kind = "EndOfFile"

FileStreamKinds == {"Mod", "Ident", "Semicolon", "Bang", "LeftCurly", "RightCurly"}

\* What a file may start with before its last MaxFileTokens tokens: nothing,
\* or one whole item.
Leading == {<<>>, <<"Mod", "Ident", "Semicolon">>}

\* The vectors of the file: the tokens of a text and the end-of-file token.
InitFile ==
    /\ \E lead \in Leading : \E m \in 0..MaxFileTokens :
          \E ks \in [1..m -> FileStreamKinds] : tokens = Stream(lead \o ks)
    /\ pt = TokenPoint_new(tokens)
    /\ held = pt
    /\ res = NoResult(pt)
    /\ hist = <<>>
    /\ items = <<>>
    /\ pm = Failures_new

Returned == res.op = "parse_rust_file"

\* The loop of parse_rust_file leaves at the end of the tokens.
Break ==
    /\ ~Returned
    /\ at_end_of_file(pt)
    /\ res' = Ok(items)
    /\ UNCHANGED <<tokens, pt, held, hist, items, pm>>

\* The rest of one turn of the loop, r being the progress of
\* attributed(item) at the point and `finished` what pm.finish made of it.
Turn(r, finished) ==
    /\ hist' = Append(hist, pt.offset)
    /\ held' = pt
    /\ pm' = finished.failures
    /\ UNCHANGED tokens
    /\ CASE finished.status = "Success" ->
              /\ items' = Append(items, finished.value)
              /\ IF finished.point.offset <= pt.offset
                 THEN res' = panic("Unable to make progress") /\ pt' = pt
                 ELSE res' = Tagged(r, "attributed", "item", pt) /\ pt' = finished.point
         [] finished.status = "Failure" ->
              /\ res' = IF finished.point.offset >= Len(tokens)
                        THEN panic("index out of bounds")
                        ELSE Err(tokens[finished.point.offset + 1].extent[1],
                                 collect(finished.value), finished, r)
              /\ UNCHANGED <<pt, items>>
         [] OTHER ->
              /\ res' = panic(r.error)
              /\ UNCHANGED <<pt, items>>

ParseItem ==
    /\ ~Returned
    /\ ~at_end_of_file(pt)
    /\ Turn(attributed("item", pt), finish(pm, attributed("item", pt)))

NextFile == Break \/ ParseItem

SpecFile == InitFile /\ [][NextFile]_vars

\* ---------------------------------------------------------------- claims about the file

\* C11: parse_rust_file returns Ok only with the point at the end-of-file
\* token; the tokens before it are split among the items, each token in
\* exactly one item, the items are in the order of the source, and the text
\* without tokens gives Ok with no item.
C11_OkOnlyAtEndOfFile ==
    (Returned /\ res.status = "Ok") =>
      /\ tokens[pt.offset + 1].kind = "EndOfFile"
      /\ pt.offset = Len(tokens) - 1
      /\ res.items = items
      /\ (Len(tokens) = 1 => res.items = <<>>)
      /\ (Len(tokens) > 1 =>
            /\ res.items # <<>>
            /\ res.items[1].first = 0
            /\ res.items[Len(res.items)].last = Len(tokens) - 1)
      /\ \A i \in 1..Len(res.items) :
            /\ res.items[i].first < res.items[i].last
            /\ res.items[i].extent = <<tokens[res.items[i].first + 1].extent[1],
                                       tokens[res.items[i].last].extent[2]>>
            /\ (i < Len(res.items) =>
                  /\ res.items[i].last = res.items[i + 1].first
                  /\ res.items[i].extent[2] <= res.items[i + 1].extent[1])

C11_TwoItemsOk ==
    /\ Returned
    /\ res.status = "Ok"
    /\ Len(res.items) = 2
    /\ res.items[1].children[1].type = "Module"
    /\ res.items[2].children[1].type = "MacroCall"

\* The loop runs on: Break is taken when it can be, and so is ParseItem,
\* which can be taken exactly where the loop has not returned and the point is
\* not at the end of the file (weak fairness, with the guard of ParseItem
\* standing for its ENABLED).
SpecFileFair ==
    /\ SpecFile
    /\ WF_vars(Break)
    /\ ([]<>(Returned \/ at_end_of_file(pt)) \/ []<><<ParseItem>>_vars)

\* C12: every item parse that succeeds moves the point to a greater token
\* index, or the loop is left with 'Unable to make progress'; the loop takes
\* at most as many turns as there are tokens, each at a greater index than
\* the one before, and parse_rust_file returns.
C12_ProgressAndTermination ==
    /\ [](/\ Len(hist) <= Len(tokens)
          /\ \A i \in 1..Len(hist) :
                /\ hist[i] < Len(tokens) - 1
                /\ \A j \in 1..Len(hist) : i < j => hist[i] < hist[j]
          /\ \A i \in 1..Len(items) : items[i].first < items[i].last)
    /\ [][items' # items =>
            \/ pt'.offset > pt.offset
            \/ res' = panic("Unable to make progress")]_vars
    /\ <>Returned

C12_TwoTurns ==
    /\ Returned
    /\ Len(hist) = 2
    /\ hist[1] < hist[2]
    /\ Len(items) = 2

\* The place of an error code in the order of the Error enum.
Rank(e) == CHOOSE k \in 1..Len(Error) : Error[k] = e

\* The failures of a log that lie at its greatest point.
AtGreatestPoint(log) ==
    { i \in 1..Len(log) :
        \A j \in 1..Len(log) : cmp(log[j].point, log[i].point) # "Greater" }

\* C13: the errors of a parser failure are at least one, in the order of the
\* Error enum without a repetition, and are the codes of the failures that the
\* failed item parse recorded at the greatest point it recorded one at.
C13_ErrorsAtGreatestPoint ==
    (Returned /\ res.status = "Err") =>
      /\ res.errors # <<>>
      /\ \A i \in 1..Len(res.errors) : \A j \in 1..Len(res.errors) :
            i < j => Rank(res.errors[i]) < Rank(res.errors[j])
      /\ { res.errors[i] : i \in 1..Len(res.errors) }
           = { res.recorded[i].error : i \in AtGreatestPoint(res.recorded) }
      /\ \A i \in AtGreatestPoint(res.recorded) :
            cmp(res.recorded[i].point, res.point) = "Equal"

C13_ErrorsAfterAnItem ==
    /\ Returned
    /\ res.status = "Err"
    /\ Len(items) = 1
    /\ Len(res.errors) >= 2
    /\ res.point.offset > items[1].last
    /\ \E i \in 1..Len(res.recorded) : res.recorded[i].point.offset < res.point.offset

\* C14: a failure of the parse is at a token index no greater than that of
\* the end-of-file token, so that the location of the error is read from the
\* token vector, and no parser moves the point past the end-of-file token.
C14_FailurePointInRange ==
    /\ pt.offset <= Len(tokens) - 1
    /\ ~Returned => res.point.offset <= Len(tokens) - 1
    /\ \A i \in 1..Len(items) : items[i].last <= Len(tokens) - 1
    /\ (Returned /\ res.status = "Panic") => res.message # "index out of bounds"
    /\ (Returned /\ res.status = "Err") =>
         /\ res.point.offset <= Len(tokens) - 1
         /\ res.location = tokens[res.point.offset + 1].extent[1]
         /\ \A i \in 1..Len(res.recorded) :
               res.recorded[i].point.offset <= Len(tokens) - 1

C14_UnclosedMacroArgs ==
    /\ Returned
    /\ res.status = "Err"
    /\ res.point.offset = Len(tokens) - 1
    /\ res.errors = <<"ExpectedRightCurly">>
    /\ Len(tokens) >= 4
    /\ tokens[Len(tokens) - 3].kind = "Ident"
    /\ tokens[Len(tokens) - 2].kind = "Bang"
    /\ tokens[Len(tokens) - 1].kind = "LeftCurly"

====
